---------------------------- MODULE Spec2Model ----------------------------
(***************************************************************************)
(* Proxy lifecycle and health cache of MyVisa-Bot.                         *)
(*                                                                         *)
(* Spec        : one ProxyManager (src/proxy_manager.py) whose methods are *)
(*               run by caller threads and by its background updater       *)
(*               thread, all working on the same three files.  Every file  *)
(*               access of the code is one step; what the code does        *)
(*               between two file accesses is local to the thread.         *)
(* SpecWriters : two caller threads of that ProxyManager, without the     *)
(*               background updater and with the clock standing still.     *)
(* SpecChecker : the site checkers (src/sites/usvisa.py,                   *)
(*               src/sites/vfsglobal.py), each with a ProxyManager of its  *)
(*               own on the same files; one request is one step.           *)
(* SpecAcquire : the same checkers with a pool that holds a proxy URL      *)
(*               without a port, and _get_random_proxy as a step.          *)
(* SpecProbe   : test_and_filter_proxies and its cooldown table, with a    *)
(*               clock in seconds that advances between two probes.        *)
(* SpecLifecycle, SpecLifecycleFair : start and stop of the updater        *)
(*               thread and the thread's loop with its waits, in seconds;  *)
(*               the second one schedules the thread fairly.               *)
(* SpecFaults  : one caller and the updater with file operations that      *)
(*               raise.                                                    *)
(* SpecNormalize : _normalize_proxy_url of the site checkers               *)
(*               (src/sites/blsspainvisa.py), applied to a line and then   *)
(*               to its own result.                                        *)
(* SpecPool    : a pool of three valid specifiers and one malformed line,  *)
(*               read by _load_proxies and by the ProxyManager.            *)
(* SpecStats   : get_stats() next to SpecLifecycle.                        *)
(* SpecPublish : the updater's cycle with the probes of                    *)
(*               test_and_filter_proxies between the calculation and the   *)
(*               publication.                                              *)
(* SpecRotation, SpecRotationFair : the batches of the updater's cycles    *)
(*               over a valid set that stays the same; the second one      *)
(*               schedules the updater fairly.                             *)
(* SpecStart   : start_background_proxy_updater and                        *)
(*               stop_background_proxy_updater run by two caller threads,  *)
(*               one step per read or write of the thread reference.       *)
(* SpecConcurrent : two threads in test_and_filter_proxies on the same     *)
(*               cooldown table.                                           *)
(* SpecSession : the US-visa checker's requests next to a caller that      *)
(*               removes entries from the blacklist file.                  *)
(* SpecManual  : add_to_blacklist and remove_from_blacklist as the command *)
(*               line runs them, on a pool file that holds one proxy.      *)
(* SpecSave    : the normalization of ProxyUpdater.save_proxies            *)
(*               (src/update_proxies.py), applied to a URL and then to its *)
(*               own result.                                               *)
(*                                                                         *)
(* Text is modelled as it is in the code: a string is a sequence of        *)
(* one-character strings, a file is the sequence of its lines (without the *)
(* line terminator), and the parsing done by the code (strip, split('#'),  *)
(* startswith, the substring test `in`) is computed on those sequences.    *)
(***************************************************************************)
EXTENDS Integers, Sequences, FiniteSets, TLC

VARIABLES
    poolFile,        \* proxy_pool.txt: the sequence of its lines
    blacklistFile,   \* blacklist.txt: [exists, lines]
    cacheFile,       \* proxy_pool.json: [exists, written, last_updated,
                     \*   valid_proxies, tested_count]
    now,             \* the wall clock, in minutes (seconds in SpecProbe)
    lock,            \* ProxyManager._lock: "free" or the thread holding it
    pc,              \* per caller thread: where it is in the method it runs
    arg,             \* per caller thread: the arguments of the running call
    loc,             \* per caller thread: the locals of the running call
    lastRet,         \* what the last call that returned gave back, and to whom
    bgPc,            \* the background updater thread: where it is in its loop
    bgValid,         \* its local valid_proxies
    bgStamp,         \* its local cache_data['last_updated']
    stopFlag,        \* ProxyManager._stop_background
    protected,       \* history: the endpoints whose add_to_blacklist returned
                     \*   True, until a remove_from_blacklist call, made during
                     \*   that add_to_blacklist or later, names them or finds
                     \*   its argument in their line
    trail,           \* history: the steps since the last cache invalidation
    proxies,              \* per checker: self.proxies
    blacklisted_proxies,  \* per checker: self.blacklisted_proxies
    failed_proxy_attempts,\* per checker: self.failed_proxy_attempts (0: no entry)
    max_proxy_failures,   \* per checker: self.max_proxy_failures
    streak,          \* history, per checker and endpoint: the failure reports
                     \*   since the last use that was not reported as a failure
    evicted,         \* history, per checker: the endpoints that had
                     \*   max_proxy_failures failure reports in a row
    lastReq,         \* history: the last request of a checker
    last_tested_proxies,  \* self._last_tested_proxies: proxy -> time
    test_cooldown,   \* self._test_cooldown
    tfPc,            \* the thread in test_and_filter_proxies: where it is
    tfLoc,           \* its locals: current_time, test_proxies, working_proxies;
                     \*   its arguments proxies, max_test, respect_cooldown;
                     \*   history: the batch as selected, the answers so far
    issued,          \* history: proxy -> the time its last probe was issued
    bgThreads,       \* the updater threads that are alive
    bgTested,        \* the updater: the probes made in this cycle
    bgProbeLeft,     \* the updater: seconds until the current probe answers
    bgElapsed,       \* the updater: seconds this cycle has taken
    bgSleepLeft,     \* the updater: seconds of the current wait still to go
    joinWaited,      \* stop_background_proxy_updater: seconds spent in join
    sinceStop,       \* history: whether the last stop request came during
                     \*   a wait of the updater, and the seconds the updater
                     \*   has slept on in that wait since
    lastLife,        \* history: the last start, stop or status call
    specifier,       \* the parts of the line given to _normalize_proxy_url
    norm1,           \* what _normalize_proxy_url returned for that line
    norm2,           \* what it returned for its own result
    normPc,          \* "idle", "once" (norm1 is there), "twice" (norm2 too)
    proxyListFile,   \* proxy_list.txt of a site checker: [exists, lines]
    loaded,          \* what the last _load_proxies returned and logged
    background_thread,  \* self._background_thread: "None" or "Thread"
    lastStats,       \* history: what the last get_stats() returned
    rotList,         \* SpecRotation: valid_proxies of the updater's cycles
    rotCooldown,     \*   self._test_cooldown, in update intervals
    rotAge,          \*   proxy -> the update intervals since its last stamp,
                     \*   counted up to rotCooldown (never tested: rotCooldown)
    rotBatch,        \*   the proxies the last cycle selected
    rotWorking,      \*   the proxies whose probe answered 200 in that cycle
    rotPc,           \*   the updater: "cycle" or "wait"
    threads,         \* SpecStart: thread object -> "none" (not created),
                     \*   "alive" or "ended"
    threadRef,       \*   self._background_thread: a thread object, 0 for None
    tfCall,          \* SpecConcurrent: caller -> its call of
                     \*   test_and_filter_proxies: [pc, current_time,
                     \*   test_proxies]
    tfProbed         \*   history: caller -> proxy -> when the caller last
                     \*   issued a probe through it

vars == << poolFile, blacklistFile, cacheFile, now, lock, pc, arg, loc, lastRet,
           bgPc, bgValid, bgStamp, stopFlag, protected, trail,
           proxies, blacklisted_proxies, failed_proxy_attempts,
           max_proxy_failures, streak, evicted, lastReq,
           last_tested_proxies, test_cooldown, tfPc, tfLoc, issued,
           bgThreads, bgTested, bgProbeLeft, bgElapsed, bgSleepLeft,
           joinWaited, sinceStop, lastLife,
           specifier, norm1, norm2, normPc, proxyListFile, loaded,
           background_thread, lastStats,
           rotList, rotCooldown, rotAge, rotBatch, rotWorking, rotPc,
           threads, threadRef, tfCall, tfProbed >>

pmVars == << lock, pc, arg, loc, lastRet, bgPc, bgValid, bgStamp, stopFlag,
             protected, trail >>

checkerVars == << proxies, blacklisted_proxies, failed_proxy_attempts,
                  max_proxy_failures, streak, evicted, lastReq >>

probeVars == << last_tested_proxies, test_cooldown, tfPc, tfLoc, issued >>

lifeVars == << bgThreads, bgTested, bgProbeLeft, bgElapsed, bgSleepLeft,
               joinWaited, sinceStop, lastLife >>

\* The variables of SpecNormalize.
normVars == << specifier, norm1, norm2, normPc >>

\* The variables of SpecPool, next to those of the ProxyManager.
poolVars == << proxyListFile, loaded >>

\* The variables of SpecStats, next to those of SpecLifecycle.
statsVars == << background_thread, lastStats >>

\* The variables of SpecRotation.
rotVars == << rotList, rotCooldown, rotAge, rotBatch, rotWorking, rotPc >>

\* The variables of SpecStart.
startVars == << threads, threadRef >>

\* The variables of SpecConcurrent, next to the cooldown table.
callVars == << tfCall, tfProbed >>

concVars == << startVars, callVars >>

\* The variables that Spec .. SpecFaults leave alone.
auxVars == << normVars, poolVars, statsVars, rotVars, concVars >>

----------------------------------------------------------------------------
(* Bounds and program constants *)

\* The clock stops here (a bound of the model).
MaxTime == 6

\* The thread objects one run creates at most (a bound of the model).
MaxThreads == 3

\* The largest max_proxy_failures a checker is configured with (a bound).
MaxFailures == 2

\* add_to_blacklist is called while the blacklist file, with the appends
\* still to come, stays under this many lines (a bound of the model).
MaxLines == 3

\* timedelta(minutes=5): the age from which a snapshot is no longer served.
CacheTtlMinutes == 5

----------------------------------------------------------------------------
(* Text *)

EmptyStr == << >>

IsSpace(c) == c = " "

RECURSIVE LStrip(_)
LStrip(s) ==
    IF s # EmptyStr /\ IsSpace(Head(s)) THEN LStrip(Tail(s)) ELSE s

RECURSIVE RStrip(_)
RStrip(s) ==
    IF s # EmptyStr /\ IsSpace(s[Len(s)])
    THEN RStrip(SubSeq(s, 1, Len(s) - 1))
    ELSE s

\* str.strip()
Strip(s) == RStrip(LStrip(s))

\* str.startswith(p)
StartsWith(s, p) == Len(s) >= Len(p) /\ SubSeq(s, 1, Len(p)) = p

\* `sub in s` on strings
Contains(sub, s) ==
    \E i \in 1..(Len(s) - Len(sub) + 1) : SubSeq(s, i, i + Len(sub) - 1) = sub

\* s.split('#')[0]
RECURSIVE BeforeHash(_)
BeforeHash(s) ==
    IF s = EmptyStr \/ Head(s) = "#" THEN EmptyStr
    ELSE << Head(s) >> \o BeforeHash(Tail(s))

Range(f) == { f[i] : i \in DOMAIN f }

RECURSIVE SelectLines(_, _)
SelectLines(lines, keep) ==
    IF lines = << >> THEN << >>
    ELSE IF Head(lines) \in keep
         THEN << Head(lines) >> \o SelectLines(Tail(lines), keep)
         ELSE SelectLines(Tail(lines), keep)

----------------------------------------------------------------------------
(* Inputs: the proxy specifiers, reasons and pool files the model draws from *)

\* "s://h:8"
P1 == << "s", ":", "/", "/", "h", ":", "8" >>
\* "s://h:80": P1 is a proper prefix of it
P2 == << "s", ":", "/", "/", "h", ":", "8", "0" >>

Endpoints == { P1, P2 }

\* "Timeout"
R1 == << "T", "i", "m", "e", "o", "u", "t" >>
\* "dup s://h:80": a reason that quotes P2
R2 == << "d", "u", "p", " " >> \o P2

Reasons == { R1, R2 }

\* "# pool"
CommentLine == << "#", " ", "p", "o", "o", "l" >>

\* A pool file with a comment line, a blank line and padded lines
PoolFiles ==
    { << CommentLine, P1, << " ", " " >>, << " " >> \o P2 \o << " " >> >> }

Callers == { "t1", "t2" }

\* The caller thread that runs beside the background updater in Spec
MainCallers == { "t1" }

NoFile == [exists |-> FALSE, lines |-> << >>]

NoCache ==
    [exists |-> FALSE, written |-> FALSE, last_updated |-> 0,
     valid_proxies |-> {}, tested_count |-> 0]

\* What a call returned (op, ok, list) and, as history, how:
\*   src, why   : a load served the snapshot ("cache") or recomputed ("calc"),
\*                the latter because the snapshot was "absent", "stale" or
\*                "unreadable"
\*   stale      : the snapshot served was 5 minutes old or older
\*   exact      : the list is pool minus blacklist of the files at the return
\*   afterInval : the load ran right after an invalidation, nothing between
\*   leak       : the endpoints of the list that were protected throughout
\*   lost       : the endpoints other than e that remove_from_blacklist(e)
\*                drops from the blacklist
NoRet == [t |-> "none", op |-> "none", ok |-> FALSE, list |-> {}, src |-> "none",
          why |-> "none", stale |-> FALSE, exact |-> FALSE, afterInval |-> FALSE,
          leak |-> {}, lost |-> {}]

NoArg == [url |-> EmptyStr, reason |-> EmptyStr]

NoLoc == [kept |-> << >>, prot |-> {}, afterInval |-> FALSE, why |-> "none",
          drop |-> {}, undone |-> FALSE]

NoTrail == "none"


----------------------------------------------------------------------------
(* The files as the code reads and writes them *)

\* The timestamp strftime('%Y-%m-%d %H:%M:%S') writes: digits, '-', ':' and a
\* blank.  No code reads it back; it is kept as a fixed text.
TimestampText == << "t", "s" >>

\* f"{proxy_url}  # {reason} - {timestamp}\n"
BlacklistLine(url, reason) ==
    url \o << " ", " ", "#", " " >> \o reason \o << " ", "-", " " >> \o TimestampText

\* line = line.strip(); if line and not line.startswith('#')
IsEntryLine(line) ==
    LET s == Strip(line) IN s # EmptyStr /\ ~StartsWith(s, << "#" >>)

\* The entry of a line: line.split('#')[0].strip()
EntryOf(line) == Strip(BeforeHash(Strip(line)))

\* add_to_blacklist's existing_blacklist
ExistingBlacklist(bl) ==
    IF bl.exists
    THEN { EntryOf(l) : l \in { x \in Range(bl.lines) : IsEntryLine(x) } }
    ELSE {}

\* _calculate_valid_proxies' pool
PoolEntries(lines) ==
    { Strip(l) : l \in { x \in Range(lines) : IsEntryLine(x) } }

\* _calculate_valid_proxies' blacklist (an empty entry is dropped)
CalcBlacklist(bl) == ExistingBlacklist(bl) \ { EmptyStr }

\* A mutant: the blacklist is not subtracted.
calculate_valid_proxies_no_blacklist(pool, bl) == PoolEntries(pool)

\* _calculate_valid_proxies: list(pool - blacklist), as a set (the list is
\* built from a set: no duplicates, no order the callers rely on).
calculate_valid_proxies(pool, bl) == PoolEntries(pool) \ CalcBlacklist(bl)

\* A mutant: a snapshot is served up to and including the age of 5 minutes.
CacheIsFresh_inclusive(c, t) == t - c.last_updated <= CacheTtlMinutes

\* datetime.now() - cache_time < timedelta(minutes=5)
CacheIsFresh(c, t) == t - c.last_updated < CacheTtlMinutes

\* load_valid_proxies serves the snapshot: the file is there, json.load reads
\* it (a file opened for writing and not written yet is empty: json.load
\* raises and the except branch recomputes) and it is younger than the TTL.
CacheServed(c, t) == c.exists /\ c.written /\ CacheIsFresh(c, t)

\* A mutant: the snapshot file is left in place.
invalidate_cache_keep(c) == c

\* _invalidate_cache: os.remove of the snapshot file when it exists
invalidate_cache(c) == IF c.exists THEN NoCache ELSE c

\* remove_from_blacklist's test of one line: proxy_url in line_stripped
RemoveMatches(line, url) == IsEntryLine(line) /\ Contains(url, Strip(line))

\* remove_from_blacklist's `lines`: the lines it keeps
KeptLines(lines, url) ==
    SelectLines(lines, { l \in Range(lines) : ~RemoveMatches(l, url) })

\* get_stats' blacklist_count: line.strip() and not line.startswith('#')
StatsBlacklisted(bl) ==
    IF bl.exists
    THEN Cardinality({ i \in DOMAIN bl.lines :
            Strip(bl.lines[i]) # EmptyStr /\ ~StartsWith(bl.lines[i], << "#" >>) })
    ELSE 0

\* The number of lines of the blacklist file whose entry is e
LinesFor(bl, e) ==
    Cardinality({ i \in DOMAIN bl.lines :
        IsEntryLine(bl.lines[i]) /\ EntryOf(bl.lines[i]) = e })

----------------------------------------------------------------------------
(* ProxyManager: the calls of the caller threads *)

\* Thread t's call returns r; its arguments and locals are gone.
Return(t, r) ==
    /\ pc' = [pc EXCEPT ![t] = "idle"]
    /\ arg' = [arg EXCEPT ![t] = NoArg]
    /\ loc' = [loc EXCEPT ![t] = NoLoc]
    /\ lastRet' = [r EXCEPT !.t = t]

BoolRet(name, b) == [NoRet EXCEPT !.op = name, !.ok = b]

\* What load_valid_proxies returns, with its history.
LoadRet(list, src, why, stale, prot, afterInval) ==
    [NoRet EXCEPT !.op = "load", !.list = list, !.src = src, !.why = why,
                  !.stale = stale,
                  !.exact = (list = PoolEntries(poolFile) \ CalcBlacklist(blacklistFile)),
                  !.afterInval = afterInval,
                  !.leak = list \cap prot \cap protected]

\* Why load_valid_proxies does not serve the snapshot
WhyNotServed(c, t) ==
    IF ~c.exists THEN "absent" ELSE IF ~c.written THEN "unreadable" ELSE "stale"

\* load_valid_proxies, lines 60-73, called by an idle thread: the snapshot is
\* read and, when it is young enough, returned.
load_valid_proxies_cache(t) ==
    /\ pc[t] = "idle"
    /\ IF CacheServed(cacheFile, now)
       THEN Return(t, LoadRet(cacheFile.valid_proxies, "cache", "none",
                              now - cacheFile.last_updated >= CacheTtlMinutes,
                              protected, trail = "inval"))
       ELSE /\ pc' = [pc EXCEPT ![t] = "load_calc"]
            /\ loc' = [loc EXCEPT ![t] =
                          [NoLoc EXCEPT !.prot = protected,
                                        !.afterInval = (trail = "inval"),
                                        !.why = WhyNotServed(cacheFile, now)]]
            /\ UNCHANGED << arg, lastRet >>
    /\ trail' = IF trail = "inval" /\ ~CacheServed(cacheFile, now) THEN t ELSE NoTrail
    /\ UNCHANGED << poolFile, blacklistFile, cacheFile, now, lock,
                    bgPc, bgValid, bgStamp, stopFlag, protected, checkerVars, probeVars, auxVars, lifeVars >>

\* load_valid_proxies, lines 75-80: return self._calculate_valid_proxies()
load_valid_proxies_calc(t) ==
    /\ pc[t] = "load_calc"
    /\ Return(t, LoadRet(calculate_valid_proxies(poolFile, blacklistFile), "calc",
                         loc[t].why, FALSE, loc[t].prot,
                         loc[t].afterInval /\ trail = t))
    /\ trail' = NoTrail
    /\ UNCHANGED << poolFile, blacklistFile, cacheFile, now, lock,
                    bgPc, bgValid, bgStamp, stopFlag, protected, checkerVars, probeVars, auxVars, lifeVars >>

\* The threads that are about to append a line
Appending == { c \in Callers : pc[c] = "add_append" }

\* The threads inside add_to_blacklist
Adding == { c \in Callers : pc[c] \in { "add_append", "add_inval" } }

\* add_to_blacklist(e, r), lines 141-150 and 160-162, called by an idle
\* thread: the file is read, without the lock, and the call returns False when
\* the proxy is in it.
add_to_blacklist_read(t, e, r) ==
    /\ pc[t] = "idle"
    /\ Len(blacklistFile.lines) + Cardinality(Appending) < MaxLines
    /\ IF e \in ExistingBlacklist(blacklistFile)
       THEN Return(t, BoolRet("add", FALSE))
       ELSE /\ pc' = [pc EXCEPT ![t] = "add_append"]
            /\ arg' = [arg EXCEPT ![t] = [url |-> e, reason |-> r]]
            /\ UNCHANGED << loc, lastRet >>
    /\ trail' = NoTrail
    /\ UNCHANGED << poolFile, blacklistFile, cacheFile, now, lock,
                    bgPc, bgValid, bgStamp, stopFlag, protected, checkerVars, probeVars, auxVars, lifeVars >>

\* add_to_blacklist, lines 151-153: with self._lock, one line is appended
\* (open(..., 'a') creates the file).
add_to_blacklist_append(t) ==
    /\ pc[t] = "add_append"
    /\ lock = "free"
    /\ blacklistFile' =
          [exists |-> TRUE,
           lines |-> Append(blacklistFile.lines,
                            BlacklistLine(arg[t].url, arg[t].reason))]
    /\ pc' = [pc EXCEPT ![t] = "add_inval"]
    /\ arg' = [arg EXCEPT ![t] = [url |-> arg[t].url, reason |-> EmptyStr]]
    /\ trail' = NoTrail
    /\ UNCHANGED << poolFile, cacheFile, now, lock, loc, lastRet,
                    bgPc, bgValid, bgStamp, stopFlag, protected, checkerVars, probeVars, auxVars, lifeVars >>

\* The endpoints that the remove_from_blacklist calls under way name or drop
BeingRemoved == UNION { loc[c].drop : c \in Callers }

\* add_to_blacklist, lines 157-159: self._invalidate_cache(); return True
add_to_blacklist_invalidate(t) ==
    /\ pc[t] = "add_inval"
    /\ cacheFile' = invalidate_cache(cacheFile)
    /\ Return(t, BoolRet("add", TRUE))
    /\ protected' = IF loc[t].undone THEN protected
                     ELSE protected \cup ({ arg[t].url } \ BeingRemoved)
    /\ trail' = "inval"
    /\ UNCHANGED << poolFile, blacklistFile, now, lock,
                    bgPc, bgValid, bgStamp, stopFlag, checkerVars, probeVars, auxVars, lifeVars >>

\* The endpoints whose lines remove_from_blacklist(e) drops
Dropped(bl, e) ==
    { EntryOf(l) : l \in { x \in Range(bl.lines) : RemoveMatches(x, e) } }

\* remove_from_blacklist(e), lines 180-199 and 207, called by an idle thread:
\* the file is read, without the lock; the call returns False when the file
\* is missing or no line matches.
remove_from_blacklist_read(t, e) ==
    /\ pc[t] = "idle"
    /\ LET kept == KeptLines(blacklistFile.lines, e) IN
       IF blacklistFile.exists /\ kept # blacklistFile.lines
       THEN /\ pc' = [pc EXCEPT ![t] = "rm_open"]
            /\ arg' = [arg EXCEPT ![t] = [NoArg EXCEPT !.url = e]]
            /\ loc' = [c \in Callers |->
                          IF c = t
                          THEN [NoLoc EXCEPT !.kept = kept,
                                             !.drop = { e } \cup Dropped(blacklistFile, e)]
                          ELSE IF c \in Adding
                                  /\ arg[c].url \in { e } \cup Dropped(blacklistFile, e)
                               THEN [loc[c] EXCEPT !.undone = TRUE]
                               ELSE loc[c]]
            /\ UNCHANGED lastRet
       ELSE Return(t, BoolRet("remove", FALSE))
    /\ protected' = protected \ ({ e } \cup Dropped(blacklistFile, e))
    /\ trail' = NoTrail
    /\ UNCHANGED << poolFile, blacklistFile, cacheFile, now, lock,
                    bgPc, bgValid, bgStamp, stopFlag, checkerVars, probeVars, auxVars, lifeVars >>

\* remove_from_blacklist, lines 200-201: the lock is taken and open(..., 'w')
\* truncates the file.
remove_from_blacklist_open(t) ==
    /\ pc[t] = "rm_open"
    /\ lock = "free"
    /\ lock' = t
    /\ blacklistFile' = [exists |-> TRUE, lines |-> << >>]
    /\ pc' = [pc EXCEPT ![t] = "rm_write"]
    /\ trail' = NoTrail
    /\ UNCHANGED << poolFile, cacheFile, now, arg, loc, lastRet,
                    bgPc, bgValid, bgStamp, stopFlag, protected, checkerVars, probeVars, auxVars, lifeVars >>

\* remove_from_blacklist, line 202: f.writelines(lines); the file is closed
\* and the lock released.
remove_from_blacklist_write(t) ==
    /\ pc[t] = "rm_write"
    /\ blacklistFile' = [exists |-> TRUE, lines |-> loc[t].kept]
    /\ lock' = "free"
    /\ pc' = [pc EXCEPT ![t] = "rm_inval"]
    /\ loc' = [loc EXCEPT ![t] = [NoLoc EXCEPT !.drop = loc[t].drop]]
    /\ trail' = NoTrail
    /\ UNCHANGED << poolFile, cacheFile, now, arg, lastRet,
                    bgPc, bgValid, bgStamp, stopFlag, protected, checkerVars, probeVars, auxVars, lifeVars >>

\* remove_from_blacklist, lines 204-207: self._invalidate_cache(); return True
remove_from_blacklist_invalidate(t) ==
    /\ pc[t] = "rm_inval"
    /\ cacheFile' = invalidate_cache(cacheFile)
    /\ Return(t, [BoolRet("remove", TRUE) EXCEPT !.lost = loc[t].drop \ { arg[t].url }])
    /\ trail' = "inval"
    /\ UNCHANGED << poolFile, blacklistFile, now, lock,
                    bgPc, bgValid, bgStamp, stopFlag, protected, checkerVars, probeVars, auxVars, lifeVars >>

\* An idle thread runs _invalidate_cache().
call_invalidate_cache(t) ==
    /\ pc[t] = "idle"
    /\ cacheFile' = invalidate_cache(cacheFile)
    /\ Return(t, BoolRet("invalidate", TRUE))
    /\ trail' = "inval"
    /\ UNCHANGED << poolFile, blacklistFile, now, lock,
                    bgPc, bgValid, bgStamp, stopFlag, protected, checkerVars, probeVars, auxVars, lifeVars >>

----------------------------------------------------------------------------
(* ProxyManager: the background updater thread *)

\* start_background_proxy_updater, lines 335-344, when no updater thread is
\* alive: the thread is started and enters its loop.
start_background_proxy_updater ==
    /\ bgPc = "stopped"
    /\ bgPc' = "calc"
    /\ trail' = NoTrail
    /\ UNCHANGED << poolFile, blacklistFile, cacheFile, now, lock, pc, arg, loc,
                    lastRet, bgValid, bgStamp, stopFlag, protected, checkerVars, probeVars, auxVars, lifeVars >>

\* _background_proxy_updater, lines 292-294 and 310-311:
\* valid_proxies = self._calculate_valid_proxies(); an empty list is not
\* published.
background_calculate ==
    /\ bgPc = "calc"
    /\ LET valid == calculate_valid_proxies(poolFile, blacklistFile) IN
       IF valid # {}
       THEN bgValid' = valid /\ bgPc' = "test"
       ELSE bgValid' = {} /\ bgPc' = "sleep"
    /\ trail' = NoTrail
    /\ UNCHANGED << poolFile, blacklistFile, cacheFile, now, lock, pc, arg, loc,
                    lastRet, bgStamp, stopFlag, protected, checkerVars, probeVars, auxVars, lifeVars >>

\* _background_proxy_updater, lines 296-303, and _save_valid_proxy_cache,
\* lines 121-129: the probes run (they touch none of the three files),
\* cache_data is built with last_updated = datetime.now(), the lock is taken
\* and open(..., 'w') creates or truncates the snapshot file.
save_valid_proxy_cache_open ==
    /\ bgPc = "test"
    /\ lock = "free"
    /\ lock' = "bg"
    /\ bgStamp' = now
    /\ cacheFile' = [NoCache EXCEPT !.exists = TRUE]
    /\ bgPc' = "save_write"
    /\ trail' = NoTrail
    /\ UNCHANGED << poolFile, blacklistFile, now, pc, arg, loc, lastRet,
                    bgValid, stopFlag, protected, checkerVars, probeVars, auxVars, lifeVars >>

published_working_only(valid_proxies, working_proxies) ==
    valid_proxies \cap working_proxies

\* cache_data['valid_proxies'] (l.123) in the call of l.303,
\* self._save_valid_proxy_cache(valid_proxies, working_proxies): the list of
\* _calculate_valid_proxies; of the probe result only its length is kept.
published(valid_proxies, working_proxies) == valid_proxies

\* cache_data['tested_count'] (l.124): len(tested_proxies) if tested_proxies
\* else 0, of the second argument of the call, which l.303 gives the
\* working_proxies that test_and_filter_proxies returned
tested_count(tested_proxies) == Cardinality(tested_proxies)

\* _save_valid_proxy_cache, line 130: json.dump, the file is closed and the
\* lock released.  When _invalidate_cache removed the file meanwhile, the
\* data goes to the unlinked file and no snapshot file exists afterwards.
save_valid_proxy_cache_write ==
    /\ bgPc = "save_write"
    /\ cacheFile' = IF cacheFile.exists
                    THEN [exists |-> TRUE, written |-> TRUE,
                          last_updated |-> bgStamp,
                          valid_proxies |->
                              published(bgValid, tfLoc.working_proxies),
                          tested_count |->
                              tested_count(tfLoc.working_proxies)]
                    ELSE cacheFile
    /\ lock' = "free"
    /\ bgPc' = "sleep"
    /\ bgValid' = {}
    /\ bgStamp' = 0
    /\ trail' = NoTrail
    /\ UNCHANGED << poolFile, blacklistFile, now, pc, arg, loc, lastRet,
                    stopFlag, protected, checkerVars, probeVars, auxVars, lifeVars >>

\* _background_proxy_updater, lines 314-321 and 287: the wait until the next
\* cycle, and the next cycle begins.
background_sleep ==
    /\ bgPc = "sleep"
    /\ bgPc' = "calc"
    /\ trail' = NoTrail
    /\ UNCHANGED << poolFile, blacklistFile, cacheFile, now, lock, pc, arg, loc,
                    lastRet, bgValid, bgStamp, stopFlag, protected, checkerVars, probeVars, auxVars, lifeVars >>

\* A minute passes.
Tick ==
    /\ now < MaxTime
    /\ now' = now + 1
    /\ UNCHANGED << poolFile, blacklistFile, cacheFile, lock, pc, arg, loc,
                    lastRet, bgPc, bgValid, bgStamp, stopFlag, protected,
                    trail, checkerVars, probeVars, auxVars, lifeVars >>

----------------------------------------------------------------------------
(* The site checkers: state *)

Checkers == { "c1", "c2" }

\* The class of a checker: USVisaChecker reports an evicted proxy to its
\* ProxyManager, VFSGlobalChecker does not.
CheckerKind == [c1 |-> "usvisa", c2 |-> "vfsglobal"]

\* The last request: the checker c, the method (path), the proxy it used if
\* it used one, how the request went (outcome) and, as history:
\*   evicts : the request put the proxy in the session blacklist
\*   streak : the failure reports in a row for the proxy, this one included
\*   nth    : this failure report is the max_proxy_failures-th in a row
\*   again  : the proxy had max_proxy_failures failure reports in a row before
\*   before, after : get_stats()['blacklisted'] before and after the request
NoReq == [c |-> "none", path |-> "none", proxy |-> EmptyStr, used |-> FALSE,
          outcome |-> "none", evicts |-> FALSE, streak |-> 0, nth |-> FALSE,
          again |-> FALSE, before |-> 0, after |-> 0]

CheckersIdle ==
    /\ proxies = [c \in Checkers |-> {}]
    /\ blacklisted_proxies = [c \in Checkers |-> {}]
    /\ failed_proxy_attempts = [c \in Checkers |-> [e \in Endpoints |-> 0]]
    /\ max_proxy_failures = [c \in Checkers |-> 1]
    /\ streak = [c \in Checkers |-> [e \in Endpoints |-> 0]]
    /\ evicted = [c \in Checkers |-> {}]
    /\ lastReq = NoReq

\* _last_tested_proxies.get(proxy_url, 0): the time of a proxy never tested
NeverTested == 0

NoTfLoc ==
    [current_time |-> 0, test_proxies |-> << >>, working_proxies |-> {},
     respect_cooldown |-> FALSE, proxies |-> << >>, max_test |-> 0,
     selected |-> << >>, answered |-> {}]

\* Nothing is being probed and nothing was.
ProbeIdle ==
    /\ last_tested_proxies = [e \in Endpoints |-> NeverTested]
    /\ test_cooldown = 1
    /\ tfPc = "idle"
    /\ tfLoc = NoTfLoc
    /\ issued = [e \in Endpoints |-> NeverTested]

\* No start or stop call was made yet.
NoCall == [op |-> "none", ok |-> FALSE]

NoLife == [op |-> "none", ok |-> FALSE, alive |-> FALSE, waited |-> 0,
           prev |-> NoCall]

NoSince == [inWait |-> FALSE, secs |-> 0]

\* No updater thread was started.
LifeIdle ==
    /\ bgThreads = 0
    /\ bgTested = 0
    /\ bgProbeLeft = 0
    /\ bgElapsed = 0
    /\ bgSleepLeft = 0
    /\ joinWaited = 0
    /\ sinceStop = NoSince
    /\ lastLife = NoLife

\* None, the result of _normalize_proxy_url for a line it refuses.
None == [ok |-> FALSE, url |-> EmptyStr, raised |-> FALSE]

NoSpecifier ==
    [pad |-> EmptyStr, scheme |-> EmptyStr, cred |-> EmptyStr,
     host |-> EmptyStr, port |-> EmptyStr, tail |-> EmptyStr]

\* _normalize_proxy_url was not called.
NormIdle ==
    /\ specifier = NoSpecifier
    /\ norm1 = None
    /\ norm2 = None
    /\ normPc = "idle"

\* _load_proxies was not called.
NoLoaded ==
    [done |-> FALSE, proxies |-> << >>, total_lines |-> 0, skipped_lines |-> 0,
     blacklisted |-> {}]

PoolIdle ==
    /\ proxyListFile = NoFile
    /\ loaded = NoLoaded

\* get_stats() was not called.
NoStats ==
    [done |-> FALSE, fields |-> {}, pool_total |-> 0, blacklisted |-> 0,
     valid_proxies |-> 0, success_rate |-> EmptyStr,
     background_running |-> "None", alive |-> FALSE]

\* self._background_thread = None (l.46), and no get_stats() so far
StatsIdle ==
    /\ background_thread = "None"
    /\ lastStats = NoStats

\* No cycle of SpecRotation has run.
RotIdle ==
    /\ rotList = << >>
    /\ rotCooldown = 1
    /\ rotAge = << >>
    /\ rotBatch = {}
    /\ rotWorking = {}
    /\ rotPc = "cycle"

\* No thread object was created: self._background_thread = None (l.46).
StartIdle ==
    /\ threads = [i \in 1..MaxThreads |-> "none"]
    /\ threadRef = 0

\* A caller that is not inside test_and_filter_proxies.
NoTfCall == [pc |-> "idle", current_time |-> 0, test_proxies |-> << >>]

\* No caller is inside test_and_filter_proxies and no probe was issued.
CallIdle ==
    /\ tfCall = [t \in Callers |-> NoTfCall]
    /\ tfProbed = [t \in Callers |-> [e \in Endpoints |-> NeverTested]]

ConcIdle == StartIdle /\ CallIdle

AuxIdle == NormIdle /\ PoolIdle /\ StatsIdle /\ RotIdle /\ ConcIdle

ManagerIdle ==
    /\ lock = "free"
    /\ pc = [t \in Callers |-> "idle"]
    /\ arg = [t \in Callers |-> NoArg]
    /\ loc = [t \in Callers |-> NoLoc]
    /\ lastRet = NoRet
    /\ bgPc = "stopped"
    /\ bgValid = {}
    /\ bgStamp = 0
    /\ stopFlag = FALSE
    /\ protected = {}
    /\ trail = NoTrail

----------------------------------------------------------------------------
(* Spec: one ProxyManager, its callers and its background updater *)

Init ==
    /\ poolFile \in PoolFiles
    /\ blacklistFile = NoFile
    /\ cacheFile = NoCache
    /\ now = 0
    /\ ManagerIdle
    /\ CheckersIdle
    /\ ProbeIdle
    /\ LifeIdle
    /\ AuxIdle

Next ==
    \/ \E t \in MainCallers : load_valid_proxies_cache(t)
    \/ \E t \in MainCallers : load_valid_proxies_calc(t)
    \/ \E t \in MainCallers, e \in Endpoints, r \in Reasons : add_to_blacklist_read(t, e, r)
    \/ \E t \in MainCallers : add_to_blacklist_append(t)
    \/ \E t \in MainCallers : add_to_blacklist_invalidate(t)
    \/ \E t \in MainCallers, e \in Endpoints : remove_from_blacklist_read(t, e)
    \/ \E t \in MainCallers : remove_from_blacklist_open(t)
    \/ \E t \in MainCallers : remove_from_blacklist_write(t)
    \/ \E t \in MainCallers : remove_from_blacklist_invalidate(t)
    \/ \E t \in MainCallers : call_invalidate_cache(t)
    \/ start_background_proxy_updater
    \/ background_calculate
    \/ save_valid_proxy_cache_open
    \/ save_valid_proxy_cache_write
    \/ background_sleep
    \/ Tick

Spec == Init /\ [][Next]_vars

----------------------------------------------------------------------------
(* SpecWriters: two threads calling one ProxyManager, no background updater *)

NextWriters ==
    \/ \E t \in Callers : load_valid_proxies_cache(t)
    \/ \E t \in Callers : load_valid_proxies_calc(t)
    \/ \E t \in Callers, e \in Endpoints, r \in Reasons : add_to_blacklist_read(t, e, r)
    \/ \E t \in Callers : add_to_blacklist_append(t)
    \/ \E t \in Callers : add_to_blacklist_invalidate(t)
    \/ \E t \in Callers, e \in Endpoints : remove_from_blacklist_read(t, e)
    \/ \E t \in Callers : remove_from_blacklist_open(t)
    \/ \E t \in Callers : remove_from_blacklist_write(t)
    \/ \E t \in Callers : remove_from_blacklist_invalidate(t)

SpecWriters == Init /\ [][NextWriters]_vars

----------------------------------------------------------------------------
(* SpecChecker: the site checkers, one request per step *)

\* How a request through _make_request can go: an answer within 2.0 seconds
\* with status 200 or another status, an answer after more than 2.0 seconds,
\* an exception of requests.
Outcomes == { "fast_200", "fast_other", "slow", "error" }

\* How a request through _make_request_with_proxy can go: status 200,
\* another status, an exception.
ProxyOutcomes == { "200", "other", "error" }

Digits == { "0", "1", "2", "3", "4", "5", "6", "7", "8", "9" }

\* urlparse(proxy_url): parsed.hostname and parsed.port
HasHostAndPort(p) ==
    \E i \in 1..Len(p) : \E j \in 1..Len(p) :
        /\ i + 2 < j
        /\ j < Len(p)
        /\ p[i] = "/"
        /\ p[i + 1] = "/"
        /\ p[j] = ":"
        /\ \A k \in (i + 2)..(j - 1) : p[k] \notin { "/", ":" }
        /\ \A k \in (j + 1)..Len(p) : p[k] \in Digits

\* self.proxy_manager.load_valid_proxies(), run in one step
LoadNow ==
    IF CacheServed(cacheFile, now)
    THEN cacheFile.valid_proxies
    ELSE calculate_valid_proxies(poolFile, blacklistFile)

\* the list as it is, the session blacklist not looked at
available_proxies_all(c, list) == list

\* [p for p in self.proxies if p not in self.blacklisted_proxies]
available_proxies(c, list) == list \ blacklisted_proxies[c]

\* The request of checker c that used no proxy
DirectRequest(c, path, o) == [NoReq EXCEPT !.c = c, !.path = path, !.outcome = o]

\* The request of checker c through proxy e
ProxyRequest(c, path, e, o) ==
    [NoReq EXCEPT !.c = c, !.path = path, !.proxy = e, !.used = TRUE,
                  !.outcome = o, !.again = (e \in evicted[c]),
                  !.before = StatsBlacklisted(blacklistFile),
                  !.after = StatsBlacklisted(blacklistFile)]

\* _handle_proxy_failure(e, r) of checker c, whose self.proxies is list when
\* the report comes.  The count of e goes up; at max_proxy_failures the proxy
\* goes to self.blacklisted_proxies, leaves self.proxies and loses its count.
\* USVisaChecker calls proxy_manager.add_to_blacklist(e, r) first, run here in
\* one step; VFSGlobalChecker does not.
handle_proxy_failure(c, path, e, r, o, list) ==
    LET fail_count == failed_proxy_attempts[c][e] + 1
        full == fail_count >= max_proxy_failures[c]
        appended == /\ full
                    /\ CheckerKind[c] = "usvisa"
                    /\ e \notin ExistingBlacklist(blacklistFile)
        file == IF appended
                THEN [exists |-> TRUE,
                      lines |-> Append(blacklistFile.lines, BlacklistLine(e, r))]
                ELSE blacklistFile
        run == streak[c][e] + 1
    IN  /\ failed_proxy_attempts' =
              [failed_proxy_attempts EXCEPT ![c][e] = IF full THEN 0 ELSE fail_count]
        /\ blacklisted_proxies' =
              [blacklisted_proxies EXCEPT ![c] = IF full THEN @ \cup { e } ELSE @]
        /\ proxies' = [proxies EXCEPT ![c] = IF full THEN list \ { e } ELSE list]
        /\ blacklistFile' = file
        /\ cacheFile' = IF appended THEN invalidate_cache(cacheFile) ELSE cacheFile
        /\ protected' = IF appended THEN protected \cup { e } ELSE protected
        /\ streak' = [streak EXCEPT ![c][e] = run]
        /\ evicted' = [evicted EXCEPT ![c] =
                          IF run >= max_proxy_failures[c] THEN @ \cup { e } ELSE @]
        /\ lastReq' = [ProxyRequest(c, path, e, o) EXCEPT
                          !.evicts = full,
                          !.streak = run,
                          !.nth = (run = max_proxy_failures[c]),
                          !.after = StatsBlacklisted(file)]

\* _make_request of checker c: _get_random_proxy() reloads self.proxies from
\* the ProxyManager and draws a proxy that is not in the session blacklist;
\* a slow answer and an exception are reported as failures, any answer within
\* 2.0 seconds deletes the proxy's failure count.
make_request(c, o) ==
    /\ LET list == LoadNow IN
       IF available_proxies(c, list) = {}
       THEN /\ proxies' = [proxies EXCEPT ![c] = list]
            /\ lastReq' = DirectRequest(c, "make_request", o)
            /\ UNCHANGED << blacklistFile, cacheFile, protected, blacklisted_proxies,
                            failed_proxy_attempts, streak, evicted >>
       ELSE \E e \in available_proxies(c, list) :
            IF ~HasHostAndPort(e)
            THEN /\ proxies' = [proxies EXCEPT ![c] = list]
                 /\ blacklisted_proxies' =
                       [blacklisted_proxies EXCEPT ![c] = @ \cup { e }]
                 /\ lastReq' = DirectRequest(c, "make_request", o)
                 /\ UNCHANGED << blacklistFile, cacheFile, protected,
                                 failed_proxy_attempts, streak, evicted >>
            ELSE IF o \in { "slow", "error" }
            THEN handle_proxy_failure(c, "make_request", e, R1, o, list)
            ELSE /\ proxies' = [proxies EXCEPT ![c] = list]
                 /\ failed_proxy_attempts' =
                       [failed_proxy_attempts EXCEPT ![c][e] = 0]
                 /\ streak' = [streak EXCEPT ![c][e] = 0]
                 /\ lastReq' = ProxyRequest(c, "make_request", e, o)
                 /\ UNCHANGED << blacklistFile, cacheFile, protected,
                                 blacklisted_proxies, evicted >>
    /\ UNCHANGED << poolFile, now, lock, pc, arg, loc, lastRet, bgPc, bgValid,
                    bgStamp, stopFlag, trail, max_proxy_failures,
                    probeVars, auxVars, lifeVars >>

\* _make_request_with_proxy of USVisaChecker: a proxy of self.proxies, as it
\* was last loaded, that is not in the session blacklist; status 200 returns
\* the response, another status and an exception are reported as failures.
make_request_with_proxy(c, o) ==
    /\ CheckerKind[c] = "usvisa"
    /\ IF available_proxies(c, proxies[c]) = {}
       THEN /\ lastReq' = DirectRequest(c, "make_request_with_proxy", o)
            /\ UNCHANGED << blacklistFile, cacheFile, protected, proxies,
                            blacklisted_proxies, failed_proxy_attempts,
                            streak, evicted >>
       ELSE \E e \in available_proxies(c, proxies[c]) :
            IF o = "200"
            THEN /\ streak' = [streak EXCEPT ![c][e] = 0]
                 /\ lastReq' = ProxyRequest(c, "make_request_with_proxy", e, o)
                 /\ UNCHANGED << blacklistFile, cacheFile, protected, proxies,
                                 blacklisted_proxies, failed_proxy_attempts,
                                 evicted >>
            ELSE handle_proxy_failure(c, "make_request_with_proxy", e, R1, o,
                                      proxies[c])
    /\ UNCHANGED << poolFile, now, lock, pc, arg, loc, lastRet, bgPc, bgValid,
                    bgStamp, stopFlag, trail, max_proxy_failures,
                    probeVars, auxVars, lifeVars >>

\* The checkers after __init__: self.proxies is loaded, nothing has failed.
InitChecker ==
    /\ poolFile \in PoolFiles
    /\ blacklistFile = NoFile
    /\ cacheFile = NoCache
    /\ now = 0
    /\ ManagerIdle
    /\ proxies = [c \in Checkers |->
                     calculate_valid_proxies(poolFile, blacklistFile)]
    /\ blacklisted_proxies = [c \in Checkers |-> {}]
    /\ failed_proxy_attempts = [c \in Checkers |-> [e \in Endpoints |-> 0]]
    /\ max_proxy_failures \in [Checkers -> 1..MaxFailures]
    /\ streak = [c \in Checkers |-> [e \in Endpoints |-> 0]]
    /\ evicted = [c \in Checkers |-> {}]
    /\ lastReq = NoReq
    /\ ProbeIdle
    /\ LifeIdle
    /\ AuxIdle

NextChecker ==
    \/ \E c \in Checkers, o \in Outcomes : make_request(c, o)
    \/ \E c \in Checkers, o \in ProxyOutcomes : make_request_with_proxy(c, o)

SpecChecker == InitChecker /\ [][NextChecker]_vars

----------------------------------------------------------------------------
(* SpecAcquire: the checkers with a pool that holds an endpoint without a
   port, which _get_random_proxy refuses *)

\* An endpoint without a port: "s://h"
P3 == << "s", ":", "/", "/", "h" >>

AcquireEndpoints == Endpoints \cup { P3 }

\* Pool files with a port-less line beside a good one
AcquirePoolFiles == { << P1, P3 >>, << P3, P2 >> }

\* _get_random_proxy: not (parsed.hostname and parsed.port)
RefusedUrl(e) == ~HasHostAndPort(e)

\* What _get_random_proxy of checker c returned: the proxy e
Acquired(c, e) ==
    [NoReq EXCEPT !.c = c, !.path = "get_random_proxy", !.proxy = e,
                  !.used = TRUE]

\* What _get_random_proxy of checker c returned: None
AcquiredNone(c) == [NoReq EXCEPT !.c = c, !.path = "get_random_proxy"]

\* _get_random_proxy() of checker c (USVisaChecker and IdataChecker have the
\* same code): self.proxies is reloaded from the ProxyManager; None when it
\* is empty or all of it is in the session blacklist; otherwise a proxy is
\* drawn, and when its URL has no host or no port it goes to the session
\* blacklist and None is returned.
get_random_proxy(c) ==
    /\ LET list == LoadNow IN
       /\ proxies' = [proxies EXCEPT ![c] = list]
       /\ IF available_proxies(c, list) = {}
          THEN /\ lastReq' = AcquiredNone(c)
               /\ UNCHANGED blacklisted_proxies
          ELSE \E e \in available_proxies(c, list) :
               IF RefusedUrl(e)
               THEN /\ blacklisted_proxies' =
                          [blacklisted_proxies EXCEPT ![c] = @ \cup { e }]
                    /\ lastReq' = AcquiredNone(c)
               ELSE /\ lastReq' = Acquired(c, e)
                    /\ UNCHANGED blacklisted_proxies
    /\ UNCHANGED << poolFile, blacklistFile, cacheFile, now, pmVars,
                    failed_proxy_attempts, max_proxy_failures, streak,
                    evicted, probeVars, auxVars, lifeVars >>

InitAcquire ==
    /\ poolFile \in AcquirePoolFiles
    /\ blacklistFile = NoFile
    /\ cacheFile = NoCache
    /\ now = 0
    /\ ManagerIdle
    /\ proxies = [c \in Checkers |->
                     calculate_valid_proxies(poolFile, blacklistFile)]
    /\ blacklisted_proxies = [c \in Checkers |-> {}]
    /\ failed_proxy_attempts =
          [c \in Checkers |-> [e \in AcquireEndpoints |-> 0]]
    /\ max_proxy_failures \in [Checkers -> 1..MaxFailures]
    /\ streak = [c \in Checkers |-> [e \in AcquireEndpoints |-> 0]]
    /\ evicted = [c \in Checkers |-> {}]
    /\ lastReq = NoReq
    /\ ProbeIdle
    /\ LifeIdle
    /\ AuxIdle

NextAcquire ==
    \/ \E c \in Checkers : get_random_proxy(c)
    \/ \E c \in Checkers, o \in Outcomes : make_request(c, o)
    \/ \E c \in Checkers, o \in ProxyOutcomes : make_request_with_proxy(c, o)

SpecAcquire == InitAcquire /\ [][NextAcquire]_vars

----------------------------------------------------------------------------
(* SpecProbe: test_and_filter_proxies and its cooldown table.  Time is in
   seconds here; a probe is an HTTP request that takes time, so the clock
   advances between the probes of one batch. *)

MaxCooldown == 2

MaxTest == 2

\* The lists a caller passes: the endpoints of the pool, each at most once,
\* in any order (list(pool - blacklist) has no fixed order).
ProxyLists ==
    { s \in UNION { [1..n -> Endpoints] : n \in 0..Cardinality(Endpoints) } :
        \A i, j \in DOMAIN s : s[i] = s[j] => i = j }

\* time.time() is seconds since 1970, far more than any cooldown: the clock
\* of SpecProbe starts late enough for a proxy never tested to be eligible.
Epoch == MaxCooldown + 1

\* current_time - last_test >= self._test_cooldown
Eligible(p, t) == t - last_tested_proxies[p] >= test_cooldown

\* The loop of respect_cooldown=True, l.237-242: an eligible proxy is
\* appended, and the loop ends once len(test_proxies) >= max_test; max_test
\* here is what is left of it after the proxies appended so far.
RECURSIVE CooldownBatch(_, _, _)
CooldownBatch(list, t, max_test) ==
    IF list = << >> THEN << >>
    ELSE IF Eligible(Head(list), t)
         THEN << Head(list) >> \o
              (IF max_test <= 1
               THEN << >>
               ELSE CooldownBatch(Tail(list), t, max_test - 1))
         ELSE CooldownBatch(Tail(list), t, max_test)

\* random.sample(proxies, min(max_test, len(proxies)))
SampleBatches(list, max_test) ==
    { s \in ProxyLists :
        /\ Range(s) \subseteq Range(list)
        /\ Len(s) = IF max_test < Len(list) THEN max_test ELSE Len(list) }

\* test_and_filter_proxies up to the start of its probe loop: the batch is
\* chosen and current_time is read once for the whole batch; with an empty
\* batch the call returns [] at once.
test_and_filter_select(list, max_test, respect_cooldown) ==
    /\ tfPc = "idle"
    /\ \E batch \in ProxyLists :
        /\ IF respect_cooldown
           THEN batch = CooldownBatch(list, now, max_test)
           ELSE batch \in SampleBatches(list, max_test)
        /\ tfLoc' = [current_time |-> now, test_proxies |-> batch,
                     working_proxies |-> {},
                     respect_cooldown |-> respect_cooldown,
                     proxies |-> list, max_test |-> max_test,
                     selected |-> batch, answered |-> {}]
        /\ tfPc' = IF batch = << >> THEN "returned" ELSE "probing"
    /\ UNCHANGED << poolFile, blacklistFile, cacheFile, now, pmVars,
                    checkerVars, last_tested_proxies, test_cooldown, issued,
                    lifeVars, auxVars >>

stamp_skipped(table, p, t) == table

\* self._last_tested_proxies[proxy_url] = current_time, l.260, the first
\* statement of a turn of the probe loop
stamp(table, p, t) == [table EXCEPT ![p] = t]

\* One turn of the probe loop, up to the request: the proxy is stamped with
\* the current_time of the batch and the request is issued.
test_and_filter_probe ==
    /\ tfPc = "probing"
    /\ LET p == Head(tfLoc.test_proxies)
       IN /\ last_tested_proxies' =
                 stamp(last_tested_proxies, p, tfLoc.current_time)
          /\ issued' = [issued EXCEPT ![p] = now]
    /\ tfPc' = "awaiting"
    /\ UNCHANGED << poolFile, blacklistFile, cacheFile, now, pmVars,
                    checkerVars, test_cooldown, tfLoc, lifeVars, auxVars >>

\* How a probe can end: status 200, another status, or an exception of
\* requests.get (a refused connection, the timeout of a hanging proxy)
ProbeOutcomes == { "200", "other", "raise" }

IsWorking_any_status(o) == o # "raise"

\* response.status_code == 200 (l.271), reached when the GET did not raise
IsWorking(o) == o = "200"

pool_after_probe_dropped(pool, p, o) ==
    IF o = "200" THEN pool ELSE SelectLines(pool, Range(pool) \ { p })

\* The pool file after one turn of the probe loop: the loop (l.257-279)
\* opens no file; a probe that fails is logged and nothing else.
pool_after_probe(pool, p, o) == pool

\* The request answers 200 or another status, or raises (the except branch
\* of the turn, l.277-278); the loop goes on with the next proxy of the
\* batch or returns working_proxies.
test_and_filter_answer(o) ==
    /\ tfPc = "awaiting"
    /\ LET p == Head(tfLoc.test_proxies)
           rest == Tail(tfLoc.test_proxies)
       IN /\ tfLoc' = [tfLoc EXCEPT
                 !.test_proxies = rest,
                 !.working_proxies = IF IsWorking(o) THEN @ \cup { p } ELSE @,
                 !.answered = @ \cup { [p |-> p, o |-> o] }]
          /\ tfPc' = IF rest = << >> THEN "returned" ELSE "probing"
          /\ poolFile' = pool_after_probe(poolFile, p, o)
    /\ UNCHANGED << blacklistFile, cacheFile, now, pmVars,
                    checkerVars, last_tested_proxies, test_cooldown, issued,
                    lifeVars, auxVars >>

\* return [] (l.249) or return working_proxies (l.281): the call is over
\* and its locals are gone.
test_and_filter_return ==
    /\ tfPc = "returned"
    /\ tfPc' = "idle"
    /\ tfLoc' = NoTfLoc
    /\ UNCHANGED << poolFile, blacklistFile, cacheFile, now, pmVars,
                    checkerVars, last_tested_proxies, test_cooldown, issued,
                    lifeVars, auxVars >>

\* A second passes, between two calls or while the answer to a probe is
\* awaited.
probe_second ==
    /\ tfPc \in { "idle", "awaiting" }
    /\ now < Epoch + MaxTime
    /\ now' = now + 1
    /\ UNCHANGED << poolFile, blacklistFile, cacheFile, pmVars, checkerVars,
                    last_tested_proxies, test_cooldown, tfPc, tfLoc, issued,
                    lifeVars, auxVars >>

InitProbe ==
    /\ poolFile \in PoolFiles
    /\ blacklistFile = NoFile
    /\ cacheFile = NoCache
    /\ now = Epoch
    /\ ManagerIdle
    /\ CheckersIdle
    /\ LifeIdle
    /\ AuxIdle
    /\ last_tested_proxies = [e \in Endpoints |-> NeverTested]
    /\ test_cooldown \in 1..MaxCooldown
    /\ tfPc = "idle"
    /\ tfLoc = NoTfLoc
    /\ issued = [e \in Endpoints |-> NeverTested]

NextProbe ==
    \/ \E list \in ProxyLists, max_test \in 0..MaxTest,
          respect_cooldown \in BOOLEAN :
          test_and_filter_select(list, max_test, respect_cooldown)
    \/ test_and_filter_probe
    \/ \E o \in ProbeOutcomes : test_and_filter_answer(o)
    \/ test_and_filter_return
    \/ probe_second

SpecProbe == InitProbe /\ [][NextProbe]_vars

----------------------------------------------------------------------------
(* SpecLifecycle: start and stop of the updater thread, and the thread's
   loop with its waits.  Time is in seconds and only durations are kept: a
   second passes while the thread is blocked in a probe or in a sleep. *)

\* self._update_interval
UpdateInterval == 60

\* self._background_thread.join(timeout=5)
JoinTimeout == 5

\* self.test_timeout, the timeout of one probe
ProbeTimeout == 3

MaxProbes == 2

\* The previous start or stop call, as the next call records it.
LastCall ==
    IF lastLife.op \in { "start", "stop" }
    THEN [op |-> lastLife.op, ok |-> lastLife.ok]
    ELSE lastLife.prev

\* Where the thread is between two cycles: in the wait loop after a cycle
\* or in the sleep after a cycle that raised.
WaitStates == { "wait", "wait_sleep", "exc_sleep" }

\* The callers blocked in join(timeout=5).
Joining == { t \in Callers : pc[t] = "stop_join" }

\* start without its test: a thread is started whatever is alive.
StartRefused_never == FALSE

\* if self._background_thread and self._background_thread.is_alive()
StartRefused == bgThreads > 0

\* while True
LoopContinues_always == TRUE

\* while not self._stop_background
LoopContinues == ~stopFlag

\* a sleep one second short of the interval
exception_sleep_time_short == UpdateInterval - 1

\* time.sleep(self._update_interval) of the except branch
exception_sleep_time == UpdateInterval

\* sleep_time = max(0, self._update_interval - elapsed), then int(sleep_time)
sleep_time(elapsed) ==
    IF UpdateInterval - elapsed > 0 THEN UpdateInterval - elapsed ELSE 0

\* start_background_proxy_updater(): False when a thread is alive; otherwise
\* the stop flag is cleared, a daemon thread is started, True.
start_background_proxy_updater_call(t) ==
    /\ pc[t] = "idle"
    /\ IF StartRefused
       THEN /\ lastLife' = [NoLife EXCEPT !.op = "start", !.ok = FALSE,
                                          !.alive = TRUE, !.prev = LastCall]
            /\ UNCHANGED << stopFlag, bgThreads, bgPc, sinceStop,
                            background_thread >>
       ELSE /\ stopFlag' = FALSE
            /\ bgThreads' = bgThreads + 1
            /\ bgPc' = "check"
            /\ sinceStop' = NoSince
            /\ background_thread' = "Thread"
            /\ lastLife' = [NoLife EXCEPT !.op = "start", !.ok = TRUE,
                                          !.alive = TRUE, !.prev = LastCall]
    /\ UNCHANGED << poolFile, blacklistFile, cacheFile, now, lock, pc, arg,
                    loc, lastRet, bgValid, bgStamp, protected, trail,
                    checkerVars, probeVars, normVars, poolVars, lastStats, rotVars, concVars,
                    bgTested, bgProbeLeft, bgElapsed, bgSleepLeft, joinWaited >>

\* stop_background_proxy_updater() up to the join: False when no thread is
\* alive; otherwise the stop flag is set and the caller joins the thread.
stop_background_proxy_updater_set(t) ==
    /\ pc[t] = "idle"
    /\ IF bgThreads = 0
       THEN /\ lastLife' = [NoLife EXCEPT !.op = "stop", !.ok = FALSE,
                                          !.prev = LastCall]
            /\ UNCHANGED << stopFlag, pc, joinWaited, sinceStop >>
       ELSE /\ stopFlag' = TRUE
            /\ pc' = [pc EXCEPT ![t] = "stop_join"]
            /\ joinWaited' = 0
            /\ sinceStop' = [inWait |-> bgPc \in WaitStates, secs |-> 0]
            /\ UNCHANGED lastLife
    /\ UNCHANGED << poolFile, blacklistFile, cacheFile, now, lock, arg, loc,
                    lastRet, bgPc, bgValid, bgStamp, protected, trail,
                    checkerVars, probeVars, auxVars, bgThreads, bgTested, bgProbeLeft,
                    bgElapsed, bgSleepLeft >>

\* stop_background_proxy_updater() from the join on: join returns when the
\* thread has ended or after 5 seconds; the call returns False when the
\* thread is still alive and True otherwise.
stop_background_proxy_updater_join(t) ==
    /\ pc[t] = "stop_join"
    /\ bgThreads = 0 \/ joinWaited >= JoinTimeout
    /\ lastLife' = [op |-> "stop", ok |-> bgThreads = 0,
                    alive |-> bgThreads > 0, waited |-> joinWaited,
                    prev |-> LastCall]
    /\ pc' = [pc EXCEPT ![t] = "idle"]
    /\ joinWaited' = 0
    /\ UNCHANGED << poolFile, blacklistFile, cacheFile, now, lock, arg, loc,
                    lastRet, bgPc, bgValid, bgStamp, stopFlag, protected,
                    trail, checkerVars, probeVars, auxVars, bgThreads, bgTested,
                    bgProbeLeft, bgElapsed, bgSleepLeft, sinceStop >>

\* get_background_status()['running'], which get_stats() reports as
\* background_running
get_background_status(t) ==
    /\ pc[t] = "idle"
    /\ lastLife' = [NoLife EXCEPT !.op = "status", !.ok = bgThreads > 0,
                                  !.alive = bgThreads > 0, !.prev = LastCall]
    /\ UNCHANGED << poolFile, blacklistFile, cacheFile, now, pmVars,
                    checkerVars, probeVars, auxVars, bgThreads, bgTested, bgProbeLeft,
                    bgElapsed, bgSleepLeft, joinWaited, sinceStop >>

\* The while test of the loop: the thread ends when the stop flag is set,
\* otherwise a cycle begins and start_time is taken.
background_loop_check ==
    /\ bgPc = "check"
    /\ IF LoopContinues
       THEN bgPc' = "calc" /\ UNCHANGED bgThreads
       ELSE bgPc' = "stopped" /\ bgThreads' = bgThreads - 1
    /\ bgTested' = 0
    /\ bgElapsed' = 0
    /\ UNCHANGED << poolFile, blacklistFile, cacheFile, now, lock, pc, arg,
                    loc, lastRet, bgValid, bgStamp, stopFlag, protected,
                    trail, checkerVars, probeVars, auxVars, bgProbeLeft, bgSleepLeft,
                    joinWaited, sinceStop, lastLife >>

\* test_and_filter_proxies inside a cycle: one probe is issued; it answers
\* at once or takes up to its timeout.
background_probe_issue(d) ==
    /\ bgPc = "test"
    /\ bgTested < MaxProbes
    /\ bgTested' = bgTested + 1
    /\ bgProbeLeft' = d
    /\ bgPc' = "probing"
    /\ UNCHANGED << poolFile, blacklistFile, cacheFile, now, lock, pc, arg,
                    loc, lastRet, bgValid, bgStamp, stopFlag, protected,
                    trail, checkerVars, probeVars, auxVars, bgThreads, bgElapsed,
                    bgSleepLeft, joinWaited, sinceStop, lastLife >>

\* The probe has answered or timed out.
background_probe_answer ==
    /\ bgPc = "probing"
    /\ bgProbeLeft = 0
    /\ bgPc' = "test"
    /\ UNCHANGED << poolFile, blacklistFile, cacheFile, now, lock, pc, arg,
                    loc, lastRet, bgValid, bgStamp, stopFlag, protected,
                    trail, checkerVars, probeVars, auxVars, lifeVars >>

\* An exception is raised inside the cycle, before the snapshot is written:
\* it is caught and logged, and the thread sleeps.
background_raise ==
    /\ bgPc \in { "calc", "test" }
    /\ bgPc' = "exc_sleep"
    /\ bgSleepLeft' = exception_sleep_time
    /\ bgValid' = {}
    /\ bgTested' = 0
    /\ bgElapsed' = 0
    /\ UNCHANGED << poolFile, blacklistFile, cacheFile, now, lock, pc, arg,
                    loc, lastRet, bgStamp, stopFlag, protected, trail,
                    checkerVars, probeVars, auxVars, bgThreads, bgProbeLeft,
                    joinWaited, sinceStop, lastLife >>

\* The sleep after an exception is over: back to the while test.
background_exc_wake ==
    /\ bgPc = "exc_sleep"
    /\ bgSleepLeft = 0
    /\ bgPc' = "check"
    /\ UNCHANGED << poolFile, blacklistFile, cacheFile, now, lock, pc, arg,
                    loc, lastRet, bgValid, bgStamp, stopFlag, protected,
                    trail, checkerVars, probeVars, auxVars, lifeVars >>

\* The cycle is over: elapsed and sleep_time are computed (the counters of
\* the cycle are not read again).
background_wait_begin ==
    /\ bgPc = "sleep"
    /\ bgSleepLeft' = sleep_time(bgElapsed)
    /\ bgPc' = "wait"
    /\ bgTested' = 0
    /\ bgElapsed' = 0
    /\ UNCHANGED << poolFile, blacklistFile, cacheFile, now, lock, pc, arg,
                    loc, lastRet, bgValid, bgStamp, stopFlag, protected,
                    trail, checkerVars, probeVars, auxVars, bgThreads, bgProbeLeft,
                    joinWaited, sinceStop, lastLife >>

\* One turn of the wait loop: it ends when the seconds are used up or the
\* stop flag is set, otherwise time.sleep(1) begins.
background_wait_check ==
    /\ bgPc = "wait"
    /\ bgPc' = IF bgSleepLeft = 0 \/ stopFlag THEN "check" ELSE "wait_sleep"
    /\ UNCHANGED << poolFile, blacklistFile, cacheFile, now, lock, pc, arg,
                    loc, lastRet, bgValid, bgStamp, stopFlag, protected,
                    trail, checkerVars, probeVars, auxVars, lifeVars >>

\* A second passes while the thread is blocked: in a probe, in the
\* time.sleep(1) of the wait loop or in the sleep after an exception.  A
\* caller in join has waited one second more; its join does not outlast its
\* timeout.
background_second ==
    /\ Joining = {} \/ joinWaited < JoinTimeout
    /\ \/ /\ bgPc = "probing"
          /\ bgProbeLeft > 0
          /\ bgProbeLeft' = bgProbeLeft - 1
          /\ bgElapsed' = bgElapsed + 1
          /\ UNCHANGED << bgPc, bgSleepLeft, sinceStop >>
       \/ /\ bgPc = "wait_sleep"
          /\ bgSleepLeft' = bgSleepLeft - 1
          /\ bgPc' = "wait"
          /\ sinceStop' = IF sinceStop.inWait
                          THEN [sinceStop EXCEPT !.secs = @ + 1]
                          ELSE sinceStop
          /\ UNCHANGED << bgProbeLeft, bgElapsed >>
       \/ /\ bgPc = "exc_sleep"
          /\ bgSleepLeft > 0
          /\ bgSleepLeft' = bgSleepLeft - 1
          /\ sinceStop' = IF sinceStop.inWait
                          THEN [sinceStop EXCEPT !.secs = @ + 1]
                          ELSE sinceStop
          /\ UNCHANGED << bgPc, bgProbeLeft, bgElapsed >>
    /\ joinWaited' = IF Joining # {} THEN joinWaited + 1 ELSE joinWaited
    /\ UNCHANGED << poolFile, blacklistFile, cacheFile, now, lock, pc, arg,
                    loc, lastRet, bgValid, bgStamp, stopFlag, protected,
                    trail, checkerVars, probeVars, auxVars, bgThreads, bgTested,
                    lastLife >>

\* The steps of the updater thread.
UpdaterStep ==
    \/ background_loop_check
    \/ background_calculate
    \/ \E d \in 0..ProbeTimeout : background_probe_issue(d)
    \/ background_probe_answer
    \/ save_valid_proxy_cache_open
    \/ save_valid_proxy_cache_write
    \/ background_wait_begin
    \/ background_wait_check
    \/ background_exc_wake
    \/ background_second

NextLife ==
    \/ \E t \in MainCallers : start_background_proxy_updater_call(t)
    \/ \E t \in MainCallers : stop_background_proxy_updater_set(t)
    \/ \E t \in MainCallers : stop_background_proxy_updater_join(t)
    \/ \E t \in MainCallers : get_background_status(t)
    \/ background_raise
    \/ UpdaterStep

SpecLifecycle == Init /\ [][NextLife]_vars

\* The thread is scheduled, its probes and sleeps end, and a join returns at
\* its timeout at the latest.  A cycle may raise, but none has to.
SpecLifecycleFair ==
    /\ Init
    /\ [][NextLife]_vars
    /\ WF_vars(UpdaterStep)
    /\ WF_vars(\E t \in MainCallers : stop_background_proxy_updater_join(t))

----------------------------------------------------------------------------
(* SpecFaults: one caller and the background updater, with file operations
   that fail.  An open, a read or a write that raises is caught by the
   except branch of the operation it belongs to. *)

\* A missing pool file: os.path.exists is False and the pool is empty.
NoPool == << >>

\* A blacklist file written by an earlier run
OldBlacklist == [exists |-> TRUE, lines |-> << BlacklistLine(P1, R1) >>]

\* The return value of an operation that caught a file error
ErrorRet(name) == [NoRet EXCEPT !.op = name, !.ok = FALSE, !.why = "error"]

\* _save_valid_proxy_cache raises inside `with open(..., 'w')`: either open
\* raised and the file is as it was, or open had truncated the file and
\* json.dump did not complete, which leaves an unparsable file.
save_failure_outcomes(c) == { c, [NoCache EXCEPT !.exists = TRUE] }

\* remove_from_blacklist raises inside `with open(..., 'w')`: either open
\* raised and the file is as it was, or open had truncated the file and
\* writelines wrote none or only the first of the lines to keep.
remove_failure_outcomes(bl, kept) ==
    { bl } \cup { [exists |-> TRUE, lines |-> SubSeq(kept, 1, k)] :
                     k \in 0..(Len(kept) - 1) }

\* add_to_blacklist raises inside `with open(..., 'a')`: either open raised
\* and the file is as it was, or open had created the file and the write
\* raised (a line written in part is not modelled).
add_failure_outcomes(bl) == { bl, [exists |-> TRUE, lines |-> bl.lines] }

\* The publish of a cycle fails: the exception is caught and logged in
\* _save_valid_proxy_cache, the lock is released and the cycle ends.
save_valid_proxy_cache_fails ==
    /\ bgPc = "test"
    /\ lock = "free"
    /\ cacheFile' \in save_failure_outcomes(cacheFile)
    /\ bgPc' = "sleep"
    /\ bgValid' = {}
    /\ trail' = NoTrail
    /\ UNCHANGED << poolFile, blacklistFile, now, lock, pc, arg, loc, lastRet,
                    bgStamp, stopFlag, protected, checkerVars, probeVars, auxVars,
                    lifeVars >>

\* load_valid_proxies falls back to _calculate_valid_proxies and the pool or
\* the blacklist cannot be read: the except branch returns [].
load_valid_proxies_calc_fails(t) ==
    /\ pc[t] = "load_calc"
    /\ Return(t, LoadRet({}, "calc", "error", FALSE, loc[t].prot, FALSE))
    /\ trail' = NoTrail
    /\ UNCHANGED << poolFile, blacklistFile, cacheFile, now, lock,
                    bgPc, bgValid, bgStamp, stopFlag, protected, checkerVars,
                    probeVars, auxVars, lifeVars >>

\* add_to_blacklist cannot read the blacklist file: False.
add_to_blacklist_read_fails(t, e) ==
    /\ pc[t] = "idle"
    /\ blacklistFile.exists
    /\ Return(t, ErrorRet("add"))
    /\ trail' = NoTrail
    /\ UNCHANGED << poolFile, blacklistFile, cacheFile, now, lock,
                    bgPc, bgValid, bgStamp, stopFlag, protected, checkerVars,
                    probeVars, auxVars, lifeVars >>

\* add_to_blacklist cannot append its line: False, and no invalidate.
add_to_blacklist_append_fails(t) ==
    /\ pc[t] = "add_append"
    /\ lock = "free"
    /\ blacklistFile' \in add_failure_outcomes(blacklistFile)
    /\ Return(t, ErrorRet("add"))
    /\ trail' = NoTrail
    /\ UNCHANGED << poolFile, cacheFile, now, lock,
                    bgPc, bgValid, bgStamp, stopFlag, protected, checkerVars,
                    probeVars, auxVars, lifeVars >>

\* remove_from_blacklist cannot read the blacklist file: False.
remove_from_blacklist_read_fails(t, e) ==
    /\ pc[t] = "idle"
    /\ blacklistFile.exists
    /\ Return(t, ErrorRet("remove"))
    /\ trail' = NoTrail
    /\ UNCHANGED << poolFile, blacklistFile, cacheFile, now, lock,
                    bgPc, bgValid, bgStamp, stopFlag, protected, checkerVars,
                    probeVars, auxVars, lifeVars >>

\* remove_from_blacklist cannot rewrite the file: the lock is released, the
\* except branch returns False, and no invalidate.
remove_from_blacklist_write_fails(t) ==
    /\ pc[t] = "rm_open"
    /\ lock = "free"
    /\ blacklistFile' \in remove_failure_outcomes(blacklistFile, loc[t].kept)
    /\ Return(t, ErrorRet("remove"))
    /\ trail' = NoTrail
    /\ UNCHANGED << poolFile, cacheFile, now, lock,
                    bgPc, bgValid, bgStamp, stopFlag, protected, checkerVars,
                    probeVars, auxVars, lifeVars >>

InitFaults ==
    /\ poolFile \in PoolFiles \cup { NoPool }
    /\ blacklistFile \in { NoFile, OldBlacklist }
    /\ cacheFile = NoCache
    /\ now = 0
    /\ ManagerIdle
    /\ CheckersIdle
    /\ ProbeIdle
    /\ LifeIdle
    /\ AuxIdle

NextFaults ==
    \/ \E t \in MainCallers : load_valid_proxies_cache(t)
    \/ \E t \in MainCallers : load_valid_proxies_calc(t)
    \/ \E t \in MainCallers : load_valid_proxies_calc_fails(t)
    \/ \E t \in MainCallers, e \in Endpoints, r \in Reasons : add_to_blacklist_read(t, e, r)
    \/ \E t \in MainCallers, e \in Endpoints : add_to_blacklist_read_fails(t, e)
    \/ \E t \in MainCallers : add_to_blacklist_append(t)
    \/ \E t \in MainCallers : add_to_blacklist_append_fails(t)
    \/ \E t \in MainCallers : add_to_blacklist_invalidate(t)
    \/ \E t \in MainCallers, e \in Endpoints : remove_from_blacklist_read(t, e)
    \/ \E t \in MainCallers, e \in Endpoints : remove_from_blacklist_read_fails(t, e)
    \/ \E t \in MainCallers : remove_from_blacklist_open(t)
    \/ \E t \in MainCallers : remove_from_blacklist_write(t)
    \/ \E t \in MainCallers : remove_from_blacklist_write_fails(t)
    \/ \E t \in MainCallers : remove_from_blacklist_invalidate(t)
    \/ start_background_proxy_updater
    \/ background_calculate
    \/ save_valid_proxy_cache_open
    \/ save_valid_proxy_cache_write
    \/ save_valid_proxy_cache_fails
    \/ background_sleep

SpecFaults == InitFaults /\ [][NextFaults]_vars

----------------------------------------------------------------------------
(* Properties of ProxyManager beside its background updater (Spec) *)

\* C1: once add_to_blacklist(e) has returned True and until
\* remove_from_blacklist(e) is called, no load_valid_proxies() call returns a
\* list that contains e, whatever the background updater does meanwhile.
C1_BlacklistedNeverLoaded ==
    lastRet.op = "load" => lastRet.leak = {}

\* C4: load_valid_proxies() never returns the contents of a snapshot whose
\* last_updated is 5 minutes or more in the past; with such a snapshot in
\* place the list it returns is the one recomputed from the pool and the
\* blacklist files.
C4_StaleSnapshotNotServed ==
    lastRet.op = "load" =>
        /\ lastRet.src = "cache" => ~lastRet.stale
        /\ lastRet.why = "stale" => lastRet.src = "calc" /\ lastRet.exact

\* A load has met a snapshot of 5 minutes or older and recomputed.
C4_Witness ==
    /\ lastRet.op = "load"
    /\ lastRet.why = "stale"
    /\ lastRet.src = "calc"
    /\ cacheFile.written
    /\ now - cacheFile.last_updated >= CacheTtlMinutes

C10_RemoveLeavesOthers ==
    lastRet.op = "remove" => lastRet.lost = {}

----------------------------------------------------------------------------
(* Properties of two threads mutating the blacklist (SpecWriters) *)

AllIdle == \A t \in Callers : pc[t] = "idle"

\* C8: after any interleaving of add_to_blacklist(e, ...) calls made by
\* several threads, the blacklist file contains exactly one line for e: once
\* every call has returned, no endpoint has two lines.
C8_OneLinePerEndpoint ==
    AllIdle => \A e \in Endpoints : LinesFor(blacklistFile, e) <= 1

\* C9: when add_to_blacklist(a) runs concurrently with
\* remove_from_blacklist(b), b different from a, the blacklist file afterwards
\* contains a: once every call has returned, each endpoint whose add returned
\* True, and whose line no later remove call matched, is in the file.
C9_AppendSurvivesRewrite ==
    AllIdle => protected \subseteq ExistingBlacklist(blacklistFile)

\* C16: every cycle of the background loop that completes without an
\* exception recomputes the valid set and publishes a snapshot, an empty
\* result included: the loop reaches the wait that ends a cycle only from
\* the write of a snapshot.
C16_EveryCyclePublishes ==
    [][(bgPc # "sleep" /\ bgPc' = "sleep") => bgPc = "save_write"]_vars

\* C18: publish and invalidate exclude each other: while the updater holds
\* the lock for a publish no step removes the snapshot file, and a load that
\* returns the contents of the snapshot took them from a snapshot written in
\* full.
C18_PublishExcludesInvalidate ==
    [][/\ (lock = "bg" /\ cacheFile.exists) => cacheFile'.exists
       /\ (lastRet' # lastRet /\ lastRet'.op = "load" /\ lastRet'.src = "cache")
              => cacheFile.written]_vars

----------------------------------------------------------------------------
(* Properties of the checkers' failure policy (SpecChecker) *)

\* C2: with max_proxy_failures = N, after exactly N consecutive failure
\* reports for the same endpoint e in a checker, that checker never acquires
\* e again, and get_stats()['blacklisted'] is exactly one higher than before
\* the N-th failure.
C2_EvictionThreshold ==
    /\ ~lastReq.again
    /\ lastReq.nth => lastReq.after = lastReq.before + 1

\* C3: with max_proxy_failures = N > 1, a successful (status 200, not slow)
\* use of e resets e's failure count to 0, so that e is evicted only after N
\* failures with no success in between, on each request path.
C3_SuccessResets ==
    (lastReq.used /\ max_proxy_failures[lastReq.c] > 1) =>
        /\ lastReq.outcome \in { "fast_200", "200" }
               => failed_proxy_attempts[lastReq.c][lastReq.proxy] = 0
        /\ lastReq.evicts => lastReq.streak = max_proxy_failures[lastReq.c]

FailureCauses == { "error", "slow", "fast_other", "other" }

\* C32: every failure cause of a request made through a proxy (proxy or
\* connection error, TLS error, timeout, non-200 response, response slower
\* than 2.0 s) increments that proxy's failure counter by exactly one,
\* whatever the cause; no failing request leaves the counter unchanged or
\* resets it.  A request that brings the counter to max_proxy_failures
\* evicts the proxy, which deletes the counter.
C32_EveryFailureCounts ==
    [][(lastReq'.used /\ lastReq'.outcome \in FailureCauses) =>
          LET c == lastReq'.c
              e == lastReq'.proxy
          IN  IF lastReq'.evicts
              THEN failed_proxy_attempts[c][e] + 1 >= max_proxy_failures[c]
              ELSE failed_proxy_attempts'[c][e] =
                       failed_proxy_attempts[c][e] + 1]_vars

----------------------------------------------------------------------------
(* Properties of the checkers' acquire (SpecAcquire) *)

\* A step in which _get_random_proxy of checker c returns
AcquireReturned(c) ==
    /\ lastReq'.path = "get_random_proxy"
    /\ lastReq'.c = c
    /\ \/ lastReq' # lastReq
       \/ blacklisted_proxies' # blacklisted_proxies

\* C19: _get_random_proxy returns a member of load_valid_proxies() minus the
\* checker's session blacklist whenever that set is not empty, never an
\* endpoint of the session blacklist, and None only when that set is empty.
C19_AcquireFromAvailable ==
    [][\A c \in Checkers : AcquireReturned(c) =>
          /\ lastReq'.used =>
                 /\ lastReq'.proxy \in available_proxies(c, LoadNow)
                 /\ lastReq'.proxy \notin blacklisted_proxies[c]
          /\ ~lastReq'.used => available_proxies(c, LoadNow) = {}]_vars

----------------------------------------------------------------------------
(* Properties of ProxyManager when file operations fail (SpecFaults) *)

\* C17: publishing a snapshot is all-or-nothing: when _save_valid_proxy_cache
\* fails while a published snapshot is in place, that snapshot is still
\* intact afterwards, for load_valid_proxies() to read.
C17_FailedPublishKeepsSnapshot ==
    [][(bgPc = "test" /\ bgPc' = "sleep" /\ cacheFile.written)
          => cacheFile' = cacheFile]_vars

\* A step in which a call returns after it caught a file error
ErrorReturned ==
    /\ lastRet'.why = "error"
    /\ \/ lastRet' # lastRet
       \/ \E t \in Callers : pc[t] # "idle" /\ pc'[t] = "idle"

\* C20: no ProxyManager operation propagates a file error: on a read or write
\* error load_valid_proxies returns a list, the empty one when the pool
\* cannot be read, add_to_blacklist and remove_from_blacklist return False,
\* and the lines of the blacklist file are left as they were.
C20_FileErrorsContained ==
    [][ErrorReturned =>
          /\ lastRet'.op = "load" => lastRet'.list = {}
          /\ lastRet'.op \in { "add", "remove" } => ~lastRet'.ok
          /\ blacklistFile'.lines = blacklistFile.lines]_vars

----------------------------------------------------------------------------
(* Properties of the probe cooldown (SpecProbe) *)

\* C11: a proxy whose probe was issued at time t0 is not selected again by
\* test_and_filter_proxies(respect_cooldown=True) at any time
\* t < t0 + _test_cooldown, whatever the batch size and the position of the
\* proxy in its batch: every proxy of a batch chosen with respect_cooldown
\* and still to be probed was either never probed or last probed at least
\* _test_cooldown seconds before the batch was chosen.
C11_CooldownRespected ==
    (tfPc = "probing" /\ tfLoc.respect_cooldown) =>
        \A p \in Range(tfLoc.test_proxies) :
            tfLoc.current_time - issued[p] >= test_cooldown

\* C27: for each candidate of a batch the cooldown record is written before
\* the GET through that proxy is issued: while the answer is awaited the
\* proxy carries the stamp of the batch, and a probe that answered, hung into
\* its timeout or raised leaves the stamp in place, so the proxy is not
\* eligible while less than _test_cooldown has passed since the stamp.
C27_StampedBeforeGet ==
    /\ tfPc = "awaiting" =>
          last_tested_proxies[Head(tfLoc.test_proxies)] = tfLoc.current_time
    /\ \A a \in tfLoc.answered :
          /\ last_tested_proxies[a.p] = tfLoc.current_time
          /\ now - tfLoc.current_time < test_cooldown => ~Eligible(a.p, now)

\* A probe raised, and its proxy is stamped and in cooldown.
C27_Witness ==
    \E a \in tfLoc.answered :
        /\ a.o = "raise"
        /\ last_tested_proxies[a.p] = tfLoc.current_time
        /\ ~Eligible(a.p, now)

\* C28: test_and_filter_proxies returns exactly the selected candidates whose
\* probe answered with status 200: none whose probe raised or answered with
\* another status, none that was not selected; and every selected candidate
\* was probed, whatever the probes before it did.
C28_ReturnsLiveSelected ==
    tfPc = "returned" =>
        /\ tfLoc.working_proxies =
              { a.p : a \in { b \in tfLoc.answered : b.o = "200" } }
        /\ \A a \in tfLoc.answered :
              a.o # "200" => a.p \notin tfLoc.working_proxies
        /\ tfLoc.working_proxies \subseteq Range(tfLoc.selected)
        /\ { a.p : a \in tfLoc.answered } = Range(tfLoc.selected)

\* A batch of two returned: the first probe raised, the second answered 200
\* and is the result.
C28_Witness ==
    /\ tfPc = "returned"
    /\ Len(tfLoc.selected) = 2
    /\ [p |-> tfLoc.selected[1], o |-> "raise"] \in tfLoc.answered
    /\ [p |-> tfLoc.selected[2], o |-> "200"] \in tfLoc.answered
    /\ tfLoc.working_proxies = { tfLoc.selected[2] }

\* The batch was just selected: no probe of it was made yet.
JustSelected ==
    \/ tfPc = "probing" /\ tfLoc.test_proxies = tfLoc.selected /\ tfLoc.answered = {}
    \/ tfPc = "returned" /\ tfLoc.selected = << >>

\* The positions of the list whose proxy was never tested or has its
\* cooldown behind it
ExpiredPositions ==
    { i \in DOMAIN tfLoc.proxies :
        tfLoc.current_time - last_tested_proxies[tfLoc.proxies[i]] >= test_cooldown }

Smaller(a, b) == IF a < b THEN a ELSE b

\* C29: with respect_cooldown=True the batch is the first min(max_test, k)
\* candidates, in list order, of the k candidates whose cooldown has expired
\* or that were never tested; with respect_cooldown=False it is
\* min(max_test, number of candidates) distinct candidates.
\* Violated for max_test = 0: one candidate is selected.
C29_SelectionPolicy ==
    JustSelected =>
        IF tfLoc.respect_cooldown
        THEN /\ Len(tfLoc.selected) =
                   Smaller(tfLoc.max_test, Cardinality(ExpiredPositions))
             /\ \A j \in DOMAIN tfLoc.selected :
                   \E i \in ExpiredPositions :
                       /\ tfLoc.proxies[i] = tfLoc.selected[j]
                       /\ Cardinality({ h \in ExpiredPositions : h < i }) = j - 1
        ELSE /\ Len(tfLoc.selected) = Smaller(tfLoc.max_test, Len(tfLoc.proxies))
             /\ Range(tfLoc.selected) \subseteq Range(tfLoc.proxies)
             /\ \A i, j \in DOMAIN tfLoc.selected :
                   tfLoc.selected[i] = tfLoc.selected[j] => i = j

\* C30: test_and_filter_proxies changes only the cooldown records: whatever
\* the probes answer, no step of it changes the pool file, the blacklist
\* file or the cache snapshot.
C30_ProbesTouchNoFile ==
    [][(tfPc' # tfPc \/ tfLoc' # tfLoc
          \/ last_tested_proxies' # last_tested_proxies)
       => /\ poolFile' = poolFile
          /\ blacklistFile' = blacklistFile
          /\ cacheFile' = cacheFile]_vars

\* A call has returned after a probe that failed; the pool file still holds
\* the proxy, and no blacklist file and no snapshot were made.
C30_Witness ==
    /\ tfPc = "returned"
    /\ \E a \in tfLoc.answered : a.o # "200" /\ a.p \in PoolEntries(poolFile)
    /\ blacklistFile = NoFile
    /\ cacheFile = NoCache

----------------------------------------------------------------------------
(* Properties of the updater's lifecycle (SpecLifecycle, SpecLifecycleFair) *)

\* The call before was a start that returned True.
Started == [op |-> "start", ok |-> TRUE]

\* C12 as stated: on one ProxyManager a start called after a start returns
\* False and spawns no second thread; a stop called after a start returns
\* True, and
\* the status read after that stop says the updater is not running.
C12_StopAfterStartReturnsTrue ==
    /\ bgThreads <= 1
    /\ (lastLife.op = "start" /\ lastLife.prev = Started) => ~lastLife.ok
    /\ (lastLife.op = "stop" /\ lastLife.prev = Started) => lastLife.ok
    /\ (lastLife.op = "status" /\ lastLife.prev.op = "stop") => ~lastLife.ok

\* C12, amended: a start called after a start returns False and spawns no
\* second thread;
\* a stop called after a start returns True exactly when the thread has
\* ended by the time join returns, and it returns False only after the full
\* join timeout; the status read after a stop that returned True says the
\* updater is not running.
C12_StopReturnsTrueWithinJoin ==
    /\ bgThreads <= 1
    /\ (lastLife.op = "start" /\ lastLife.prev = Started) => ~lastLife.ok
    /\ (lastLife.op = "stop" /\ lastLife.prev = Started) =>
           /\ lastLife.ok <=> ~lastLife.alive
           /\ lastLife.waited <= JoinTimeout
           /\ ~lastLife.ok => lastLife.waited = JoinTimeout
    /\ (lastLife.op = "status" /\ lastLife.prev = [op |-> "stop", ok |-> TRUE])
           => ~lastLife.ok

\* A stop called after a start has returned False: the thread was still
\* alive when join timed out.
C12_Witness ==
    /\ lastLife.op = "stop"
    /\ lastLife.prev = Started
    /\ ~lastLife.ok
    /\ lastLife.alive

\* C13: stopping is cooperative and always takes effect.  A stop that has
\* returned with the thread still alive returned False, after the full join
\* timeout; while the thread lives on after it the stop flag stays set; the
\* thread ends at its next while test; and once the stop flag is set with a
\* thread alive, the thread eventually ends.
C13_StopTakesEffect ==
    /\ [](/\ (lastLife.op = "stop" /\ lastLife.alive) =>
                 (~lastLife.ok /\ lastLife.waited = JoinTimeout)
          /\ (bgThreads > 0 /\ LastCall = [op |-> "stop", ok |-> FALSE])
                 => stopFlag)
    /\ [][(bgPc = "check" /\ stopFlag /\ bgPc' # "check")
              => bgThreads' = bgThreads - 1]_vars
    /\ ((stopFlag /\ bgThreads > 0) ~> (bgThreads = 0))

\* A stop has returned False with the thread alive, and the thread has ended
\* since, the stop flag still set.
C13_Witness ==
    /\ lastLife.op = "stop"
    /\ ~lastLife.ok
    /\ lastLife.alive
    /\ stopFlag
    /\ bgThreads = 0

\* C14: in a wait between two cycles (after a normal cycle and after a
\* cycle that raised) the thread checks the stop flag at steps of at most one
\* second: after a stop request issued during a wait the thread sleeps at
\* most one second more in that wait.
C14_WaitChecksEverySecond ==
    sinceStop.secs <= 1

\* C15: an exception raised inside a cycle is caught; the thread sleeps one
\* full update interval and goes back to the while test, which begins the
\* next cycle unless the stop flag is set; the thread ends only with the stop
\* flag set.
C15_ExceptionKeepsLoop ==
    [][/\ (bgPc \in { "calc", "test" } /\ bgPc' = "exc_sleep") =>
              (bgSleepLeft' = UpdateInterval /\ bgThreads' = bgThreads)
       /\ (bgPc = "exc_sleep" /\ bgPc' # "exc_sleep") =>
              (bgSleepLeft = 0 /\ bgPc' = "check" /\ bgThreads' = bgThreads)
       /\ (bgPc = "exc_sleep" /\ bgPc' = "exc_sleep") =>
              bgSleepLeft' \in { bgSleepLeft, bgSleepLeft - 1 }
       /\ (bgPc = "check" /\ ~stopFlag /\ bgPc' # "check") => bgPc' = "calc"
       /\ bgThreads' < bgThreads => stopFlag]_vars

\* A cycle raised with the stop flag unset, and the sleep of one interval
\* that followed is over.
C15_Witness ==
    /\ bgPc = "exc_sleep"
    /\ bgSleepLeft = 0
    /\ ~stopFlag
    /\ bgThreads = 1

\* The state of the scheduler: no thread alive, a thread alive and the stop
\* flag clear, a thread alive and the stop flag set
SchedulerState ==
    IF bgThreads = 0 THEN "Stopped"
    ELSE IF stopFlag THEN "Stopping" ELSE "Running"

\* C37: the scheduler state changes only along Stopped -> Running ->
\* Stopping -> Stopped: start moves Stopped to Running and clears the stop
\* flag, stop moves Running to Stopping, the loop's exit moves Stopping to
\* Stopped; stop called in Stopped returns False and changes no state, and
\* after a completed stop a new start returns True and a new loop runs.
C37_SchedulerStateMachine ==
    [][/\ SchedulerState' # SchedulerState =>
              << SchedulerState, SchedulerState' >> \in
                  { << "Stopped", "Running" >>, << "Running", "Stopping" >>,
                    << "Stopping", "Stopped" >> }
       /\ (SchedulerState = "Stopped" /\ SchedulerState' = "Running") =>
              /\ lastLife'.op = "start"
              /\ lastLife'.ok
              /\ ~stopFlag'
              /\ bgThreads' = 1
              /\ bgPc' = "check"
       /\ (SchedulerState = "Running" /\ SchedulerState' = "Stopping") =>
              \E t \in Callers : pc[t] = "idle" /\ pc'[t] = "stop_join"
       /\ (SchedulerState = "Stopping" /\ SchedulerState' = "Stopped") =>
              bgPc = "check" /\ bgPc' = "stopped"
       /\ (/\ SchedulerState = "Stopped"
           /\ pc' = pc
           /\ lastLife'.op = "stop"
           /\ lastLife' # lastLife) =>
              /\ ~lastLife'.ok
              /\ UNCHANGED << stopFlag, bgThreads, bgPc >>
       /\ (/\ SchedulerState = "Stopped"
           /\ lastLife'.op = "start"
           /\ lastLife' # lastLife) =>
              lastLife'.ok /\ SchedulerState' = "Running"]_vars

\* After a stop that returned True a new start has returned True, and the
\* new thread is inside a cycle of its loop.
C37_Witness ==
    /\ lastLife.op = "start"
    /\ lastLife.ok
    /\ lastLife.prev = [op |-> "stop", ok |-> TRUE]
    /\ SchedulerState = "Running"
    /\ bgPc = "test"

----------------------------------------------------------------------------
(* _normalize_proxy_url of the site checkers (SpecNormalize)               *)
(*                                                                         *)
(* The method is the same text in src/sites/blsspainvisa.py,               *)
(* src/sites/canadavisa.py and src/sites/vfsglobal_main.py.  It is         *)
(* computed here as the code computes it: strip, the startswith test,      *)
(* urlparse (netloc, hostname, port, username, password), the checks, and  *)
(* the f-string that builds the result.                                    *)

DigitValue(c) ==
    CASE c = "0" -> 0 [] c = "1" -> 1 [] c = "2" -> 2 [] c = "3" -> 3
      [] c = "4" -> 4 [] c = "5" -> 5 [] c = "6" -> 6 [] c = "7" -> 7
      [] c = "8" -> 8 [] c = "9" -> 9

DigitChar(d) ==
    CASE d = 0 -> "0" [] d = 1 -> "1" [] d = 2 -> "2" [] d = 3 -> "3"
      [] d = 4 -> "4" [] d = 5 -> "5" [] d = 6 -> "6" [] d = 7 -> "7"
      [] d = 8 -> "8" [] d = 9 -> "9"

\* str.isdigit()
IsDigits(s) == s # EmptyStr /\ \A i \in DOMAIN s : s[i] \in Digits

\* int(s) for a string of digits
RECURSIVE ToInt(_)
ToInt(s) ==
    IF s = EmptyStr
    THEN 0
    ELSE 10 * ToInt(SubSeq(s, 1, Len(s) - 1)) + DigitValue(s[Len(s)])

\* f"{n}" for an integer n >= 0
RECURSIVE IntStr(_)
IntStr(n) ==
    IF n < 10
    THEN << DigitChar(n) >>
    ELSE IntStr(n \div 10) \o << DigitChar(n % 10) >>

\* str.lower(); "H" is the one upper-case letter of the lines of the model
Lower(s) == [i \in DOMAIN s |-> IF s[i] = "H" THEN "h" ELSE s[i]]

\* The index of the first c in s, 0 when there is none (str.find, from 1)
Find(s, c) ==
    IF \E i \in DOMAIN s : s[i] = c
    THEN CHOOSE i \in DOMAIN s : s[i] = c /\ \A j \in 1..(i - 1) : s[j] # c
    ELSE 0

\* The index of the last c in s, 0 when there is none (str.rfind, from 1)
FindLast(s, c) ==
    IF \E i \in DOMAIN s : s[i] = c
    THEN CHOOSE i \in DOMAIN s : s[i] = c /\ \A j \in (i + 1)..Len(s) : s[j] # c
    ELSE 0

\* str.partition(c): (s, '', '') when c is not in s
Partition(s, c) ==
    LET i == Find(s, c)
    IN IF i = 0
       THEN [head |-> s, sep |-> FALSE, tail |-> EmptyStr]
       ELSE [head |-> SubSeq(s, 1, i - 1), sep |-> TRUE,
             tail |-> SubSeq(s, i + 1, Len(s))]

\* str.rpartition(c): ('', '', s) when c is not in s
RPartition(s, c) ==
    LET i == FindLast(s, c)
    IN IF i = 0
       THEN [head |-> EmptyStr, sep |-> FALSE, tail |-> s]
       ELSE [head |-> SubSeq(s, 1, i - 1), sep |-> TRUE,
             tail |-> SubSeq(s, i + 1, Len(s))]

\* str.split('.')
RECURSIVE SplitDots(_)
SplitDots(s) ==
    LET p == Partition(s, ".")
    IN IF p.sep THEN << p.head >> \o SplitDots(p.tail) ELSE << s >>

HttpPrefix == << "h", "t", "t", "p", ":", "/", "/" >>

HttpsPrefix == << "h", "t", "t", "p", "s", ":", "/", "/" >>

\* proxy.startswith(('http://', 'https://'))
HasScheme(proxy) == StartsWith(proxy, HttpPrefix) \/ StartsWith(proxy, HttpsPrefix)

\* urlparse(url).scheme of a URL that begins with http:// or https://
UrlScheme(url) == Lower(SubSeq(url, 1, Find(url, ":") - 1))

\* urlparse(url).netloc of such a URL: what follows the "//" up to the
\* first "/", "?" or "#"
Netloc(url) ==
    LET rest == SubSeq(url, Find(url, ":") + 3, Len(url))
        ends == { j \in DOMAIN rest : rest[j] \in { "/", "?", "#" } }
    IN IF ends = {}
       THEN rest
       ELSE SubSeq(rest, 1, (CHOOSE j \in ends : \A k \in ends : j <= k) - 1)

\* The IPv6 literals of the lines of the model; ipaddress.ip_address, which
\* urlsplit calls on the text between the brackets, accepts them.
IPv6Literals == { << ":", ":", "1" >> }

\* urlsplit raises ValueError for a netloc with one bracket only and for
\* brackets around what is no IP literal.
NetlocInvalid(netloc) ==
    LET open == Find(netloc, "[") # 0
        close == Find(netloc, "]") # 0
    IN \/ open # close
       \/ /\ open
          /\ Partition(Partition(netloc, "[").tail, "]").head \notin IPv6Literals

\* SplitResult._hostinfo: the host and the port text of the netloc
HostInfo(netloc) ==
    LET info == RPartition(netloc, "@").tail
        br == Partition(info, "[")
    IN IF br.sep
       THEN LET b == Partition(br.tail, "]")
            IN [hostname |-> b.head, port |-> Partition(b.tail, ":").tail]
       ELSE LET h == Partition(info, ":")
            IN [hostname |-> h.head, port |-> h.tail]

\* SplitResult._userinfo: user name and password, '' standing for None too
UserInfo(netloc) ==
    LET u == RPartition(netloc, "@")
        p == Partition(u.head, ":")
    IN IF u.sep
       THEN [username |-> p.head, password |-> p.tail]
       ELSE [username |-> EmptyStr, password |-> EmptyStr]

\* parsed.port: the integer, 0 standing for None too (both are false in
\* `not parsed.port`); ValueError for a port text that is not all digits
\* and for a value above 65535.
PortOf(netloc) ==
    LET text == HostInfo(netloc).port
    IN IF text = EmptyStr
       THEN [raised |-> FALSE, value |-> 0]
       ELSE IF ~IsDigits(text) \/ ToInt(text) > 65535
       THEN [raised |-> TRUE, value |-> 0]
       ELSE [raised |-> FALSE, value |-> ToInt(text)]

\* re.match(r'^(\d{1,3}\.){3}\d{1,3}$', hostname)
IsDottedQuad(hostname) ==
    LET parts == SplitDots(hostname)
    IN /\ Len(parts) = 4
       /\ \A i \in 1..4 : IsDigits(parts[i]) /\ Len(parts[i]) <= 3

OctetsInRange_any(hostname) == TRUE

\* 0 <= int(octet) <= 255 for every octet
OctetsInRange(hostname) ==
    \A i \in 1..4 : ToInt(SplitDots(hostname)[i]) <= 255

\* The value _normalize_proxy_url returns for an accepted line
Accepted(url) == [ok |-> TRUE, url |-> url, raised |-> FALSE]

\* The inner try block, l.85-117: ValueError, None or the rebuilt URL
ParseAndValidate(proxy) ==
    LET netloc == Netloc(proxy)
        hostname == Lower(HostInfo(netloc).hostname)
        port == PortOf(netloc)
        user == UserInfo(netloc)
        colon == << ":" >>
        hostport == hostname \o colon \o IntStr(port.value)
        front == UrlScheme(proxy) \o << ":", "/", "/" >>
    IN IF NetlocInvalid(netloc) THEN [ValueError |-> TRUE, value |-> None]
       ELSE IF hostname = EmptyStr THEN [ValueError |-> FALSE, value |-> None]
       ELSE IF port.raised THEN [ValueError |-> TRUE, value |-> None]
       ELSE IF port.value = 0 THEN [ValueError |-> FALSE, value |-> None]
       ELSE IF ~(1 <= port.value /\ port.value <= 65535)
       THEN [ValueError |-> FALSE, value |-> None]
       ELSE IF IsDottedQuad(hostname) /\ ~OctetsInRange(hostname)
       THEN [ValueError |-> FALSE, value |-> None]
       ELSE IF user.username # EmptyStr /\ user.password # EmptyStr
       THEN [ValueError |-> FALSE,
             value |-> Accepted(front \o user.username \o colon
                                \o user.password \o << "@" >> \o hostport)]
       ELSE [ValueError |-> FALSE, value |-> Accepted(front \o hostport)]

\* _normalize_proxy_url(proxy_line)
normalize_proxy_url(proxy_line) ==
    LET stripped == Strip(proxy_line)
        proxy == IF HasScheme(stripped) THEN stripped ELSE HttpPrefix \o stripped
        inner == ParseAndValidate(proxy)
    IN IF stripped = EmptyStr
       THEN None
       ELSE IF inner.ValueError
       THEN None
       ELSE inner.value

\* The parts the lines of the model are made of
Pads == { EmptyStr, << " " >> }

Schemes == { EmptyStr, HttpPrefix, HttpsPrefix }

CredFull == << "u", ":", "p", "@" >>

CredUserOnly == << "u", "@" >>

Creds == { EmptyStr, CredFull, CredUserOnly }

HostName == << "h" >>

HostUpper == << "H" >>

HostQuad == << "1", ".", "2", ".", "3", ".", "4" >>

HostBadQuad == << "2", "5", "6", ".", "1", ".", "1", ".", "1" >>

HostIPv6 == << "[", ":", ":", "1", "]" >>

Hosts == { EmptyStr, HostName, HostUpper, HostQuad, HostBadQuad, HostIPv6 }

Port80 == << ":", "8", "0" >>

PortsMissing == { EmptyStr, << ":" >> }

PortsOutside ==
    { << ":", "0" >>, << ":", "6", "5", "5", "3", "6" >>,
      << ":", "7", "0", "0", "0", "0" >> }

PortsInside ==
    { Port80, << ":", "0", "8", "0" >>, << ":", "6", "5", "5", "3", "5" >> }

Ports == PortsMissing \cup PortsOutside \cup PortsInside \cup { << ":", "x" >> }

Tails == { EmptyStr, << "/", "p" >> }

Specifiers ==
    [pad : Pads, scheme : Schemes, cred : Creds, host : Hosts, port : Ports,
     tail : Tails]

\* The line a specifier stands for
RawLine(sp) ==
    sp.pad \o sp.scheme \o sp.cred \o sp.host \o sp.port \o sp.tail \o sp.pad

\* Everything but the normalizer is at rest.
OthersIdle ==
    /\ poolFile = NoPool
    /\ blacklistFile = NoFile
    /\ cacheFile = NoCache
    /\ now = 0
    /\ ManagerIdle
    /\ CheckersIdle
    /\ ProbeIdle
    /\ LifeIdle
    /\ PoolIdle
    /\ StatsIdle
    /\ RotIdle
    /\ ConcIdle

othersVars ==
    << poolFile, blacklistFile, cacheFile, now, pmVars, checkerVars, probeVars,
       lifeVars, poolVars, statsVars, rotVars, concVars >>

\* normalized = self._normalize_proxy_url(line)
normalize_proxy_url_call ==
    /\ normPc = "idle"
    /\ norm1' = normalize_proxy_url(RawLine(specifier))
    /\ normPc' = "once"
    /\ UNCHANGED << specifier, norm2, othersVars >>

\* self._normalize_proxy_url(normalized): the result is given to the
\* function again
normalize_proxy_url_again ==
    /\ normPc = "once"
    /\ norm1.ok
    /\ norm2' = normalize_proxy_url(norm1.url)
    /\ normPc' = "twice"
    /\ UNCHANGED << specifier, norm1, othersVars >>

InitNormalize ==
    /\ OthersIdle
    /\ specifier \in Specifiers
    /\ norm1 = None
    /\ norm2 = None
    /\ normPc = "idle"

NextNormalize ==
    \/ normalize_proxy_url_call
    \/ normalize_proxy_url_again

SpecNormalize == InitNormalize /\ [][NextNormalize]_vars

----------------------------------------------------------------------------
(* Properties of _normalize_proxy_url (SpecNormalize) *)

\* C22: normalization is idempotent: for every line the function accepts,
\* the function applied to its result returns that result again.
\* Violated: the result for a bracketed IPv6 host carries the host without
\* its brackets, and the function refuses that text.
C22_NormalizeIdempotent == normPc = "twice" => norm2 = norm1

----------------------------------------------------------------------------
(* SpecPool: a pool of three valid specifiers and one malformed line, read *)
(* by _load_proxies of BLSSpainChecker and by the ProxyManager             *)

\* The three valid specifiers of the pool
V1 == << "h", ":", "8" >>

V2 == << "h", ":", "8", "0" >>

V3 == HostQuad \o << ":", "8" >>

ValidLines == << V1, V2, V3 >>

\* The endpoints _normalize_proxy_url makes of them
ValidEndpoints == { HttpPrefix \o V1, HttpPrefix \o V2, HttpPrefix \o V3 }

\* Lines that _normalize_proxy_url refuses: no port, an octet above 255
MalformedLines == { HostName, HostBadQuad \o Port80 }

\* The pools: the three valid specifiers with one malformed line before,
\* between or after them
InsertAt(lines, i, line) ==
    SubSeq(lines, 1, i) \o << line >> \o SubSeq(lines, i + 1, Len(lines))

ScenarioPools ==
    { InsertAt(ValidLines, i, m) : i \in 0..Len(ValidLines), m \in MalformedLines }

\* What add_to_blacklist is called with: a valid specifier as it stands in
\* the pool, or the endpoint made of it
BlacklistArgs == Range(ValidLines) \cup ValidEndpoints

\* _load_proxies, l.137-157: the loop over the lines of the file
RECURSIVE LoadLines(_, _)
LoadLines(lines, acc) ==
    IF lines = << >>
    THEN acc
    ELSE LET line == Strip(Head(lines))
             counted == [acc EXCEPT !.total_lines = @ + 1]
             normalized_proxy == normalize_proxy_url(line)
         IN LoadLines(Tail(lines),
                IF line = EmptyStr \/ StartsWith(line, << "#" >>)
                THEN [counted EXCEPT !.skipped_lines = @ + 1]
                ELSE IF normalized_proxy.ok
                THEN [counted EXCEPT !.proxies = Append(@, normalized_proxy.url)]
                ELSE [counted EXCEPT !.skipped_lines = @ + 1,
                                     !.blacklisted = @ \cup { Strip(line) }])

\* _load_proxies: the list returned, with the counts it logs and the lines
\* it puts on the session blacklist; [] when the file is missing
load_proxies_result(file) ==
    IF file.exists
    THEN LoadLines(file.lines, [NoLoaded EXCEPT !.done = TRUE])
    ELSE [NoLoaded EXCEPT !.done = TRUE]

\* self.proxies = self._load_proxies()
load_proxies ==
    /\ ~loaded.done
    /\ loaded' = load_proxies_result(proxyListFile)
    /\ UNCHANGED << poolFile, blacklistFile, cacheFile, now, pmVars, checkerVars,
                    probeVars, lifeVars, normVars, proxyListFile, statsVars,
                    rotVars, concVars >>

InitPool ==
    /\ poolFile \in ScenarioPools
    /\ proxyListFile = [exists |-> TRUE, lines |-> poolFile]
    /\ loaded = NoLoaded
    /\ blacklistFile = NoFile
    /\ cacheFile = NoCache
    /\ now = 0
    /\ ManagerIdle
    /\ CheckersIdle
    /\ ProbeIdle
    /\ LifeIdle
    /\ NormIdle
    /\ StatsIdle
    /\ RotIdle
    /\ ConcIdle

NextPool ==
    \/ load_proxies
    \/ \E t \in MainCallers : load_valid_proxies_cache(t)
    \/ \E t \in MainCallers : load_valid_proxies_calc(t)
    \/ \E t \in MainCallers, e \in BlacklistArgs : add_to_blacklist_read(t, e, R1)
    \/ \E t \in MainCallers : add_to_blacklist_append(t)
    \/ \E t \in MainCallers : add_to_blacklist_invalidate(t)

SpecPool == InitPool /\ [][NextPool]_vars

----------------------------------------------------------------------------
(* Properties of the pool scenario (SpecPool) *)

\* The valid specifiers that are on the blacklist, as lines or as endpoints
BlacklistedValid == BlacklistArgs \cap CalcBlacklist(blacklistFile)

\* C21: for a pool file of three valid specifiers and one malformed line,
\* loading the pool gives the three valid endpoints and reports one skipped
\* line, and once one of the three is blacklisted load_valid_proxies()
\* returns exactly two members, none of them a malformed line.
\* Violated: _calculate_valid_proxies takes every line of the pool as it is.
C21_PoolScenario ==
    /\ loaded.done =>
          /\ Len(loaded.proxies) = 3
          /\ Range(loaded.proxies) = ValidEndpoints
          /\ loaded.skipped_lines = 1
    /\ ( /\ lastRet.op = "load"
         /\ \A t \in MainCallers : pc[t] = "idle"
         /\ Cardinality(BlacklistedValid) = 1 )
       => /\ Cardinality(lastRet.list) = 2
          /\ lastRet.list \cap MalformedLines = {}

----------------------------------------------------------------------------
(* SpecStats: get_stats() next to the start and stop of the updater thread *)

\* sum(1 for line in f if line.strip() and not line.startswith('#'))
CountedLines(lines) ==
    Cardinality({ i \in DOMAIN lines :
                    Strip(lines[i]) # EmptyStr /\ ~StartsWith(lines[i], << "#" >>) })

\* f"{(valid_count/pool_count*100):.1f}%", "0%" for an empty pool
SuccessRate(valid_count, pool_count) ==
    IF pool_count > 0
    THEN LET tenths == (2000 * valid_count + pool_count) \div (2 * pool_count)
         IN IntStr(tenths \div 10) \o << "." >> \o IntStr(tenths % 10) \o << "%" >>
    ELSE << "0", "%" >>

\* self._background_thread and self._background_thread.is_alive(): None
\* while no thread object was made, otherwise what is_alive() says
Running ==
    IF background_thread = "None"
    THEN "None"
    ELSE IF bgThreads > 0 THEN "True" ELSE "False"

\* The keys of the dict get_stats() returns from its try block
StatsFields ==
    { "pool_total", "blacklisted", "valid_proxies", "success_rate",
      "background_running", "tested_proxies_cache", "cache_available" }

\* get_stats(): both files are counted, load_valid_proxies() is called and
\* the status of the updater is asked for.
get_stats(t) ==
    /\ pc[t] = "idle"
    /\ LET pool_count == CountedLines(poolFile)
           valid_count == Cardinality(LoadNow)
       IN lastStats' =
            [done |-> TRUE,
             fields |-> StatsFields,
             pool_total |-> pool_count,
             blacklisted |-> IF blacklistFile.exists
                             THEN CountedLines(blacklistFile.lines)
                             ELSE 0,
             valid_proxies |-> valid_count,
             success_rate |-> SuccessRate(valid_count, pool_count),
             background_running |-> Running,
             alive |-> bgThreads > 0]
    /\ UNCHANGED << poolFile, blacklistFile, cacheFile, now, pmVars, checkerVars,
                    probeVars, lifeVars, normVars, poolVars, background_thread,
                    rotVars, concVars >>

NextStats ==
    \/ \E t \in MainCallers : get_stats(t)
    \/ NextLife

SpecStats == Init /\ [][NextStats]_vars

----------------------------------------------------------------------------
(* Properties of get_stats (SpecStats) *)

\* C24: get_stats() always returns a record with the fields pool_total,
\* blacklisted, valid, success_rate and background_running, and
\* background_running is the boolean True exactly when an updater thread is
\* alive and the boolean False otherwise, including before the first start.
\* Violated: before the first start background_running is None.
C24_StatsRecord ==
    lastStats.done =>
        /\ { "pool_total", "blacklisted", "valid_proxies", "success_rate",
             "background_running" } \subseteq lastStats.fields
        /\ lastStats.background_running =
              IF lastStats.alive THEN "True" ELSE "False"

----------------------------------------------------------------------------
(* SpecPublish: the cycle of the background updater with its probes: the   *)
(* list is calculated, test_and_filter_proxies probes a batch of it, and   *)
(* the snapshot is written; a caller blacklists and loads meanwhile.  The  *)
(* clock stands still.                                                     *)

\* max_test=10 of the updater's call (l.298), scaled to the lists of the model
UpdaterBatch == MaxTest

\* l.296-300: working_proxies = self.test_and_filter_proxies(valid_proxies,
\* max_test=10, respect_cooldown=True), up to the start of the probe loop;
\* valid_proxies is list(pool - blacklist), in some order
updater_test_select(list) ==
    /\ bgPc = "test"
    /\ Range(list) = bgValid
    /\ test_and_filter_select(list, UpdaterBatch, TRUE)

\* l.303: the call of _save_valid_proxy_cache follows the return of
\* test_and_filter_proxies
updater_save_open ==
    /\ tfPc = "returned"
    /\ save_valid_proxy_cache_open

\* The locals of the cycle are gone when the cycle has published.
updater_test_return ==
    /\ bgPc = "sleep"
    /\ test_and_filter_return

\* The wait of l.314-321, and the next cycle
updater_sleep ==
    /\ tfPc = "idle"
    /\ background_sleep

InitPublish ==
    /\ poolFile \in PoolFiles
    /\ blacklistFile = NoFile
    /\ cacheFile = NoCache
    /\ now = Epoch
    /\ ManagerIdle
    /\ CheckersIdle
    /\ ProbeIdle
    /\ LifeIdle
    /\ AuxIdle

NextPublish ==
    \/ \E t \in MainCallers : load_valid_proxies_cache(t)
    \/ \E t \in MainCallers : load_valid_proxies_calc(t)
    \/ \E t \in MainCallers, e \in Endpoints : add_to_blacklist_read(t, e, R1)
    \/ \E t \in MainCallers : add_to_blacklist_append(t)
    \/ \E t \in MainCallers : add_to_blacklist_invalidate(t)
    \/ start_background_proxy_updater
    \/ background_calculate
    \/ \E list \in ProxyLists : updater_test_select(list)
    \/ test_and_filter_probe
    \/ \E o \in ProbeOutcomes : test_and_filter_answer(o)
    \/ updater_save_open
    \/ save_valid_proxy_cache_write
    \/ updater_test_return
    \/ updater_sleep

SpecPublish == InitPublish /\ [][NextPublish]_vars

----------------------------------------------------------------------------
(* Properties of the published list (SpecPublish) *)

\* The probes of the cycle that answered otherwise than with 200
FailedProbes == { a.p : a \in { b \in tfLoc.answered : b.o # "200" } }

\* C26: the valid_proxies list that a cycle publishes is the
\* pool-minus-blacklist list computed at the start of that cycle, whatever
\* the probes answered: the list handed to the probes is the list written,
\* a proxy whose probe failed is in the snapshot of its cycle, and
\* load_valid_proxies() returns the snapshot it serves as it is.
C26_PublishesCalculatedList ==
    /\ []( (bgPc = "sleep" /\ tfPc = "returned" /\ cacheFile.written) =>
              /\ cacheFile.valid_proxies = Range(tfLoc.proxies)
              /\ FailedProbes \subseteq cacheFile.valid_proxies )
    /\ [][ /\ (bgPc = "calc" /\ bgPc' = "test") =>
                 bgValid' = PoolEntries(poolFile) \ CalcBlacklist(blacklistFile)
           /\ (bgPc = "save_write" /\ bgPc' = "sleep" /\ cacheFile.exists) =>
                 /\ cacheFile'.written
                 /\ cacheFile'.valid_proxies = bgValid
           /\ bgPc \in { "test", "save_write" } => bgValid' \in { bgValid, {} }
           /\ (lastRet' # lastRet /\ lastRet'.op = "load"
                 /\ lastRet'.src = "cache") =>
                 lastRet'.list = cacheFile.valid_proxies ]_vars

\* A cycle has published, a probe of it had failed, and load_valid_proxies()
\* returned from the snapshot a list with the proxy of that probe.
C26_Witness ==
    /\ bgPc = "sleep"
    /\ tfPc = "returned"
    /\ cacheFile.written
    /\ lastRet.op = "load"
    /\ lastRet.src = "cache"
    /\ \E e \in FailedProbes : e \in lastRet.list

\* C38: the tested_count stored in a snapshot published by a background
\* cycle equals the number of proxies that were probed in that cycle.
\* Violated: the count is the number of probes that answered 200.
C38_TestedCountIsProbed ==
    (bgPc = "sleep" /\ tfPc = "returned" /\ cacheFile.written) =>
        cacheFile.tested_count = Cardinality({ a.p : a \in tfLoc.answered })

----------------------------------------------------------------------------
(* SpecRotation, SpecRotationFair: the cycles of the background updater    *)
(* over a valid set that stays the same.  Time is counted in update        *)
(* intervals: a cycle and its wait take one interval (l.314-321), and of   *)
(* the time since a proxy was stamped only what the eligibility test       *)
(* current_time - last_test >= self._test_cooldown needs is kept.  The     *)
(* list that _calculate_valid_proxies returns for the same two files has   *)
(* the same order in every cycle.                                          *)

\* The largest pool: one proxy more than the batches of one cooldown hold
MaxPool == MaxTest * MaxCooldown + 1

\* valid_proxies: the proxies are numbered in the order of the list
RotationLists == { [i \in 1..n |-> i] : n \in 1..MaxPool }

\* current_time - last_test >= self._test_cooldown
RotEligible(p) == rotAge[p] >= rotCooldown

\* The selection loop of test_and_filter_proxies, l.237-242, on this table
RECURSIVE RotationBatch(_, _)
RotationBatch(list, max_test) ==
    IF list = << >> THEN << >>
    ELSE IF RotEligible(Head(list))
         THEN << Head(list) >> \o
              (IF max_test <= 1
               THEN << >>
               ELSE RotationBatch(Tail(list), max_test - 1))
         ELSE RotationBatch(Tail(list), max_test)

\* One cycle, l.287-311: the batch is selected with respect_cooldown=True
\* and max_test=10, each proxy of it is stamped and probed, and the list is
\* published; working are the proxies that answered 200.
rotation_cycle(working) ==
    /\ rotPc = "cycle"
    /\ LET batch == Range(RotationBatch(rotList, UpdaterBatch))
       IN /\ working \subseteq batch
          /\ rotBatch' = batch
          /\ rotWorking' = working
          /\ rotAge' = [p \in DOMAIN rotAge |-> IF p \in batch THEN 0 ELSE rotAge[p]]
    /\ rotPc' = "wait"
    /\ UNCHANGED << rotList, rotCooldown, poolFile, blacklistFile, cacheFile, now,
                    pmVars, checkerVars, probeVars, lifeVars, normVars,
                    poolVars, statsVars, concVars >>

\* The wait of l.314-321: the rest of the update interval passes.
rotation_wait ==
    /\ rotPc = "wait"
    /\ rotAge' = [p \in DOMAIN rotAge |->
                    IF rotAge[p] < rotCooldown THEN rotAge[p] + 1 ELSE rotAge[p]]
    /\ rotPc' = "cycle"
    /\ UNCHANGED << rotList, rotCooldown, rotBatch, rotWorking, poolFile,
                    blacklistFile, cacheFile, now, pmVars, checkerVars,
                    probeVars, lifeVars, poolVars, statsVars,
                    normVars, concVars >>

InitRotation ==
    /\ poolFile = NoPool
    /\ blacklistFile = NoFile
    /\ cacheFile = NoCache
    /\ now = 0
    /\ ManagerIdle
    /\ CheckersIdle
    /\ ProbeIdle
    /\ LifeIdle
    /\ NormIdle
    /\ PoolIdle
    /\ StatsIdle
    /\ ConcIdle
    /\ rotList \in RotationLists
    /\ rotCooldown \in 1..MaxCooldown
    /\ rotAge = [p \in Range(rotList) |-> rotCooldown]
    /\ rotBatch = {}
    /\ rotWorking = {}
    /\ rotPc = "cycle"

NextRotation ==
    \/ \E working \in SUBSET Range(rotList) : rotation_cycle(working)
    \/ rotation_wait

SpecRotation == InitRotation /\ [][NextRotation]_vars

\* The updater thread is scheduled: a cycle that can begin begins, a wait
\* that can end ends.
SpecRotationFair ==
    /\ InitRotation
    /\ [][NextRotation]_vars
    /\ WF_vars(\E working \in SUBSET Range(rotList) : rotation_cycle(working))
    /\ WF_vars(rotation_wait)

----------------------------------------------------------------------------
(* Properties of the rotation of the probes (SpecRotationFair) *)

\* C25: with the updater scheduled fairly, every proxy that stays in the
\* valid set is selected for probing by some cycle, whatever the size of the
\* pool is next to the batch size and the cooldown.
\* Violated: in a list longer than the batches of one cooldown, the proxies
\* at the front are eligible again before the ones at the end had a turn.
C25_EveryValidProxyProbed ==
    \A p \in 1..MaxPool : (p \in Range(rotList)) ~> (p \in rotBatch)

----------------------------------------------------------------------------
(* SpecStart: start_background_proxy_updater and
   stop_background_proxy_updater called by two threads of one ProxyManager.
   Neither method takes a lock, so the test of a call and what follows it
   are two steps, and each thread object is kept apart: is_alive() is asked
   of the object self._background_thread refers to. *)

ThreadIds == 1..MaxThreads

\* self._background_thread and self._background_thread.is_alive()
RefAlive == threadRef # 0 /\ threads[threadRef] = "alive"

\* The updater threads that are alive
AliveThreads == { i \in ThreadIds : threads[i] = "alive" }

\* The thread objects not created yet
FreshThreads == { i \in ThreadIds : threads[i] = "none" }

\* start_background_proxy_updater(), its test (l.331-333): False when the
\* thread referred to is alive, otherwise the caller goes on.
start_background_proxy_updater_test(t) ==
    /\ pc[t] = "idle"
    /\ FreshThreads # {}
    /\ IF RefAlive
       THEN /\ lastLife' = [NoLife EXCEPT !.op = "start", !.alive = TRUE]
            /\ UNCHANGED pc
       ELSE /\ pc' = [pc EXCEPT ![t] = "start_create"]
            /\ UNCHANGED lastLife
    /\ UNCHANGED << poolFile, blacklistFile, cacheFile, now, lock, arg, loc,
                    lastRet, bgPc, bgValid, bgStamp, stopFlag, protected,
                    trail, checkerVars, probeVars, bgThreads, bgTested,
                    bgProbeLeft, bgElapsed, bgSleepLeft, joinWaited,
                    sinceStop, normVars, poolVars, statsVars, rotVars,
                    startVars, callVars >>

\* start_background_proxy_updater() after its test (l.335-344): the stop flag
\* is cleared, a new thread object is stored and started, True.
start_background_proxy_updater_create(t) ==
    /\ pc[t] = "start_create"
    /\ \E i \in FreshThreads :
          /\ \A j \in FreshThreads : i <= j
          /\ threads' = [threads EXCEPT ![i] = "alive"]
          /\ threadRef' = i
    /\ stopFlag' = FALSE
    /\ pc' = [pc EXCEPT ![t] = "idle"]
    /\ lastLife' = [NoLife EXCEPT !.op = "start", !.ok = TRUE, !.alive = TRUE]
    /\ UNCHANGED << poolFile, blacklistFile, cacheFile, now, lock, arg, loc,
                    lastRet, bgPc, bgValid, bgStamp, protected, trail,
                    checkerVars, probeVars, bgThreads, bgTested, bgProbeLeft,
                    bgElapsed, bgSleepLeft, joinWaited, sinceStop, normVars,
                    poolVars, statsVars, rotVars, callVars >>

\* stop_background_proxy_updater(), its test (l.348-352): False when no
\* thread is referred to or that thread has ended; otherwise the stop flag
\* is set and the caller joins.
stop_background_proxy_updater_test(t) ==
    /\ pc[t] = "idle"
    /\ IF ~RefAlive
       THEN /\ lastLife' = [NoLife EXCEPT !.op = "stop"]
            /\ UNCHANGED << pc, stopFlag >>
       ELSE /\ stopFlag' = TRUE
            /\ pc' = [pc EXCEPT ![t] = "stop_join"]
            /\ UNCHANGED lastLife
    /\ UNCHANGED << poolFile, blacklistFile, cacheFile, now, lock, arg, loc,
                    lastRet, bgPc, bgValid, bgStamp, protected, trail,
                    checkerVars, probeVars, bgThreads, bgTested, bgProbeLeft,
                    bgElapsed, bgSleepLeft, joinWaited, sinceStop, normVars,
                    poolVars, statsVars, rotVars, startVars, callVars >>

\* stop_background_proxy_updater() from the join on (l.355-362): the join
\* returns when the thread has ended or at its timeout, whichever comes
\* first; False when the thread referred to is still alive.
stop_background_proxy_updater_joined(t) ==
    /\ pc[t] = "stop_join"
    /\ lastLife' = [NoLife EXCEPT !.op = "stop", !.ok = ~RefAlive,
                                  !.alive = RefAlive]
    /\ pc' = [pc EXCEPT ![t] = "idle"]
    /\ UNCHANGED << poolFile, blacklistFile, cacheFile, now, lock, arg, loc,
                    lastRet, bgPc, bgValid, bgStamp, stopFlag, protected,
                    trail, checkerVars, probeVars, bgThreads, bgTested,
                    bgProbeLeft, bgElapsed, bgSleepLeft, joinWaited,
                    sinceStop, normVars, poolVars, statsVars, rotVars,
                    startVars, callVars >>

\* A thread reads the stop flag in its while test (l.287) or in its wait
\* loop (l.318-320) and ends.
background_thread_exit(i) ==
    /\ threads[i] = "alive"
    /\ stopFlag
    /\ threads' = [threads EXCEPT ![i] = "ended"]
    /\ UNCHANGED << poolFile, blacklistFile, cacheFile, now, pmVars,
                    checkerVars, probeVars, lifeVars, normVars, poolVars,
                    statsVars, rotVars, threadRef, callVars >>

NextStart ==
    \/ \E t \in Callers : start_background_proxy_updater_test(t)
    \/ \E t \in Callers : start_background_proxy_updater_create(t)
    \/ \E t \in Callers : stop_background_proxy_updater_test(t)
    \/ \E t \in Callers : stop_background_proxy_updater_joined(t)
    \/ \E i \in ThreadIds : background_thread_exit(i)

SpecStart == Init /\ [][NextStart]_vars

----------------------------------------------------------------------------
(* Properties of concurrent starts (SpecStart) *)

\* C33: at no time are two background updater threads alive for one
\* ProxyManager, including when start_background_proxy_updater() is called
\* concurrently from two threads and when it is called after a stop that
\* timed out.
\* Violated: two callers pass the test of start before either of them has
\* stored its thread, and each starts one.
C33_OneUpdaterThread == Cardinality(AliveThreads) <= 1

----------------------------------------------------------------------------
(* SpecConcurrent: test_and_filter_proxies(respect_cooldown=True) called by
   two threads of one ProxyManager.  The method takes no lock: the cooldown
   table is read by the selection loop and written by the probe loop, a
   proxy at a time, and the clock advances between two steps. *)

\* The selection of caller t, l.234-249: current_time is read and the batch
\* is built from the table as it is now; an empty batch returns [] at once.
concurrent_select(t, list, max_test) ==
    /\ tfCall[t].pc = "idle"
    /\ LET batch == CooldownBatch(list, now, max_test)
       IN tfCall' = [tfCall EXCEPT ![t] =
                        [pc |-> IF batch = << >> THEN "idle" ELSE "probing",
                         current_time |-> now,
                         test_proxies |-> batch]]
    /\ UNCHANGED << poolFile, blacklistFile, cacheFile, now, pmVars,
                    checkerVars, probeVars, lifeVars, normVars, poolVars,
                    statsVars, rotVars, startVars, tfProbed >>

\* One turn of the probe loop of caller t, l.257-278: the proxy is stamped
\* with the current_time of the batch and the GET is issued; after the last
\* turn the call returns.
concurrent_probe(t) ==
    /\ tfCall[t].pc = "probing"
    /\ LET p == Head(tfCall[t].test_proxies)
           rest == Tail(tfCall[t].test_proxies)
       IN /\ last_tested_proxies' =
                 stamp(last_tested_proxies, p, tfCall[t].current_time)
          /\ tfProbed' = [tfProbed EXCEPT ![t][p] = now]
          /\ tfCall' = [tfCall EXCEPT ![t] =
                           IF rest = << >> THEN NoTfCall
                           ELSE [@ EXCEPT !.test_proxies = rest]]
    /\ UNCHANGED << poolFile, blacklistFile, cacheFile, now, pmVars,
                    checkerVars, test_cooldown, tfPc, tfLoc, issued, lifeVars,
                    normVars, poolVars, statsVars, rotVars, startVars >>

\* A second passes.
concurrent_second ==
    /\ now < Epoch + MaxCooldown
    /\ now' = now + 1
    /\ UNCHANGED << poolFile, blacklistFile, cacheFile, pmVars, checkerVars,
                    probeVars, lifeVars, auxVars >>

InitConcurrent ==
    /\ poolFile \in PoolFiles
    /\ blacklistFile = NoFile
    /\ cacheFile = NoCache
    /\ now = Epoch
    /\ ManagerIdle
    /\ CheckersIdle
    /\ LifeIdle
    /\ NormIdle
    /\ PoolIdle
    /\ StatsIdle
    /\ RotIdle
    /\ StartIdle
    /\ last_tested_proxies = [e \in Endpoints |-> NeverTested]
    /\ test_cooldown \in 1..MaxCooldown
    /\ tfPc = "idle"
    /\ tfLoc = NoTfLoc
    /\ issued = [e \in Endpoints |-> NeverTested]
    /\ tfCall = [t \in Callers |-> NoTfCall]
    /\ tfProbed = [t \in Callers |-> [e \in Endpoints |-> NeverTested]]

NextConcurrent ==
    \/ \E t \in Callers, list \in ProxyLists, max_test \in 1..MaxTest :
          concurrent_select(t, list, max_test)
    \/ \E t \in Callers : concurrent_probe(t)
    \/ concurrent_second

SpecConcurrent == InitConcurrent /\ [][NextConcurrent]_vars

----------------------------------------------------------------------------
(* Properties of concurrent probing (SpecConcurrent) *)

\* C34: when two threads call test_and_filter_proxies(respect_cooldown=True)
\* on the same ProxyManager concurrently, no proxy is probed by both calls
\* within one cooldown interval: the last probes of a proxy by the two
\* callers are at least _test_cooldown seconds apart.
\* Violated: both callers build their batch before either has stamped a
\* proxy, and both probe it.
C34_NoDoubleProbe ==
    \A p \in Endpoints : \A t, u \in Callers :
        (/\ t # u
         /\ tfProbed[t][p] # NeverTested
         /\ tfProbed[u][p] # NeverTested
         /\ tfProbed[t][p] >= tfProbed[u][p])
            => tfProbed[t][p] - tfProbed[u][p] >= test_cooldown

----------------------------------------------------------------------------
(* SpecSession: a USVisaChecker next to a caller of
   ProxyManager.remove_from_blacklist on the same files.  A request that
   may report its proxy to add_to_blacklist waits for the lock of the
   blacklist file. *)

\* The checkers that report to the ProxyManager
SessionCheckers == { c \in Checkers : CheckerKind[c] = "usvisa" }

NextSession ==
    \/ \E c \in SessionCheckers : get_random_proxy(c)
    \/ /\ lock = "free"
       /\ \E c \in SessionCheckers, o \in Outcomes : make_request(c, o)
    \/ /\ lock = "free"
       /\ \E c \in SessionCheckers, o \in ProxyOutcomes :
             make_request_with_proxy(c, o)
    \/ \E t \in MainCallers, e \in Endpoints : remove_from_blacklist_read(t, e)
    \/ \E t \in MainCallers : remove_from_blacklist_open(t)
    \/ \E t \in MainCallers : remove_from_blacklist_write(t)
    \/ \E t \in MainCallers : remove_from_blacklist_invalidate(t)

SpecSession == InitChecker /\ [][NextSession]_vars

----------------------------------------------------------------------------
(* Properties of the session blacklist (SpecSession) *)

\* A step of a checker, not of the caller of remove_from_blacklist, who
\* leaves the checker as it is
CheckerStep == checkerVars' # checkerVars

\* C35: within one checker instance the session blacklist only grows: once
\* an endpoint e is in blacklisted_proxies, _get_random_proxy of that checker
\* never returns e again, even after ProxyManager.remove_from_blacklist(e)
\* and a recompute that puts e back into the valid set.
C35_SessionBlacklistGrows ==
    [][/\ \A c \in Checkers :
             blacklisted_proxies[c] \subseteq blacklisted_proxies'[c]
       /\ (CheckerStep /\ lastReq'.used) =>
             lastReq'.proxy \notin blacklisted_proxies[lastReq'.c]]_vars

\* _get_random_proxy of the USVisaChecker has returned while an endpoint of
\* its session blacklist, evicted earlier and since removed from the
\* blacklist file, is in the valid set again.
C35_Witness ==
    /\ lastReq.c = "c1"
    /\ lastReq.path = "get_random_proxy"
    /\ lastRet.op = "remove"
    /\ lastRet.ok
    /\ \E e \in blacklisted_proxies["c1"] :
          /\ e \in evicted["c1"]
          /\ e \in LoadNow

----------------------------------------------------------------------------
(* SpecManual: add_to_blacklist as main() calls it for `--blacklist URL`,
   with a proxy URL given on the command line, on a pool that holds one
   endpoint. *)

\* Pool files with one endpoint
ManualPools == { << P1 >>, << CommentLine, P2 >> }

InitManual ==
    /\ poolFile \in ManualPools
    /\ blacklistFile = NoFile
    /\ cacheFile = NoCache
    /\ now = 0
    /\ ManagerIdle
    /\ CheckersIdle
    /\ ProbeIdle
    /\ LifeIdle
    /\ AuxIdle

\* pm.add_to_blacklist(sys.argv[2], reason), and the other calls of main()
NextManual ==
    \/ \E t \in MainCallers, e \in Endpoints, r \in Reasons :
          add_to_blacklist_read(t, e, r)
    \/ \E t \in MainCallers : add_to_blacklist_append(t)
    \/ \E t \in MainCallers : add_to_blacklist_invalidate(t)
    \/ \E t \in MainCallers, e \in Endpoints : remove_from_blacklist_read(t, e)
    \/ \E t \in MainCallers : remove_from_blacklist_open(t)
    \/ \E t \in MainCallers : remove_from_blacklist_write(t)
    \/ \E t \in MainCallers : remove_from_blacklist_invalidate(t)
    \/ \E t \in MainCallers : load_valid_proxies_cache(t)
    \/ \E t \in MainCallers : load_valid_proxies_calc(t)

SpecManual == InitManual /\ [][NextManual]_vars

----------------------------------------------------------------------------
(* Properties of the manual blacklisting (SpecManual) *)

\* C36: every endpoint recorded in the durable blacklist is, or once was, a
\* member of the pool: no sequence of add_to_blacklist calls puts into the
\* blacklist file an endpoint that never appeared in the pool file (which
\* no step of SpecManual changes).
\* Violated: add_to_blacklist does not read the pool.
C36_BlacklistWithinPool ==
    ExistingBlacklist(blacklistFile) \ { EmptyStr } \subseteq PoolEntries(poolFile)

----------------------------------------------------------------------------
(* SpecSave: the normalization of ProxyUpdater.save_proxies
   (src/update_proxies.py), which test_proxy_normalization repeats: applied
   to a proxy URL and then to its own result. *)

SchemeSeparator == << ":", "/", "/" >>

FtpPrefix == << "f", "t", "p" >> \o SchemeSeparator

\* "http:", a scheme name without the slashes
HttpColon == << "h", "t", "t", "p", ":" >>

\* A path with a URL in it: "/p?u=a://b"
TailWithUrl == << "/", "p", "?", "u", "=", "a" >> \o SchemeSeparator \o << "b" >>

\* The URLs of the model, in parts
SaveUrls ==
    [pad : { EmptyStr },
     scheme : { EmptyStr, HttpPrefix, HttpsPrefix, FtpPrefix, SchemeSeparator,
                HttpColon },
     cred : { EmptyStr, CredFull },
     host : { HostName, HostQuad },
     port : { EmptyStr, Port80 },
     tail : { EmptyStr, << "/", "p" >>, TailWithUrl }]

\* a normalization that knows http:// and https:// only
save_proxies_url_http_only(proxy_url) ==
    IF HasScheme(proxy_url) THEN proxy_url ELSE HttpPrefix \o proxy_url

\* l.254-257: if not ("://" in proxy_url): proxy_url = "http://" + proxy_url
save_proxies_url(proxy_url) ==
    IF ~Contains(SchemeSeparator, proxy_url)
    THEN HttpPrefix \o proxy_url
    ELSE proxy_url

\* The line save_proxies writes for a proxy
Written(proxy_url) ==
    [ok |-> TRUE, url |-> save_proxies_url(proxy_url), raised |-> FALSE]

\* One turn of the loop of save_proxies, for the URL of the model
save_proxies_write ==
    /\ normPc = "idle"
    /\ norm1' = Written(RawLine(specifier))
    /\ normPc' = "once"
    /\ UNCHANGED << specifier, norm2, othersVars >>

\* The URL that was written is given to save_proxies again.
save_proxies_again ==
    /\ normPc = "once"
    /\ norm2' = Written(norm1.url)
    /\ normPc' = "twice"
    /\ UNCHANGED << specifier, norm1, othersVars >>

InitSave ==
    /\ OthersIdle
    /\ specifier \in SaveUrls
    /\ norm1 = None
    /\ norm2 = None
    /\ normPc = "idle"

NextSave ==
    \/ save_proxies_write
    \/ save_proxies_again

SpecSave == InitSave /\ [][NextSave]_vars

----------------------------------------------------------------------------
(* Properties of the writer's normalization (SpecSave) *)

\* The URL of the model has "://" in it: with its scheme or in its path.
HasSeparator ==
    \/ specifier.scheme \in { HttpPrefix, HttpsPrefix, FtpPrefix, SchemeSeparator }
    \/ specifier.tail = TailWithUrl

\* C39: the proxy-list writer's normalization prepends 'http://' to a proxy
\* URL exactly when the URL contains no '://', and leaves every URL that has
\* a scheme (http, https, ftp, ...) unchanged; applying it twice gives the
\* same result as applying it once.
C39_WriterNormalization ==
    /\ normPc # "idle" =>
          /\ ~HasSeparator => norm1.url = HttpPrefix \o RawLine(specifier)
          /\ HasSeparator => norm1.url = RawLine(specifier)
    /\ normPc = "twice" => norm2 = norm1

\* An ftp URL was written as it is, and written again as it is.
C39_Witness ==
    /\ normPc = "twice"
    /\ specifier.scheme = FtpPrefix
    /\ norm1.url = RawLine(specifier)
    /\ norm2.url = norm1.url

=============================================================================
